---- MODULE Spec2Model ----
(***************************************************************************)
(* State-machine model of the Linux Random Number Generator (LRNG) core:   *)
(* src/lrng_base.c with the kernel-crypto-API backend src/lrng_kcapi.c.    *)
(*                                                                         *)
(* Execution contexts (threads, the work-queue worker) are modelled with   *)
(* a program counter pc[t] and the local variables of the C functions they *)
(* are executing (loc[t]).  A critical section that is protected by a lock *)
(* and touches only state protected by that lock is one atomic step.       *)
(***************************************************************************)
EXTENDS Integers, Sequences, FiniteSets, TLC

(***************************** program constants **************************)
LRNG_DRNG_SECURITY_STRENGTH_BYTES == 32
LRNG_DRNG_SECURITY_STRENGTH_BITS == LRNG_DRNG_SECURITY_STRENGTH_BYTES * 8
LRNG_DRNG_MAX_REQSIZE == 4096
LRNG_DRNG_RESEED_THRESH == 1048576
LRNG_POOL_SIZE == 128
LRNG_POOL_WORD_BITS == 32
LRNG_POOL_SIZE_BITS == LRNG_POOL_SIZE * LRNG_POOL_WORD_BITS
LRNG_IRQ_ENTROPY_BITS == LRNG_DRNG_SECURITY_STRENGTH_BYTES * 8
LRNG_EMERG_ENTROPY == LRNG_DRNG_SECURITY_STRENGTH_BITS * 2
LRNG_MIN_SEED_ENTROPY_BITS == 128
LRNG_INIT_ENTROPY_BITS == 32
LRNG_IRQ_OVERSAMPLING_FACTOR == 10
LRNG_FIPS_CRNGT == 3
\* sizeof(entropy_buf) in lrng_pdrng_seed_locked: three 32-byte buffers and a u32
ENTROPY_BUF_BYTES == 3 * LRNG_DRNG_SECURITY_STRENGTH_BYTES + 4
\* buf[64] in lrng_drng_write_common
WRITE_BUF_BYTES == 64
\* initial value of lrng_sdrng_reseed_max_time (seconds)
SDRNG_RESEED_MAX_TIME_INIT == 600
\* archrandom (LRNG_ARCHRANDOM_DEFAULT_STRENGTH) and jitterrng entropy estimates
ARCHRANDOM_BITS == LRNG_DRNG_SECURITY_STRENGTH_BITS \div 32
JITTERRNG_BITS == LRNG_DRNG_SECURITY_STRENGTH_BITS \div 16

\* errno values returned (negated) by the code
EINPROGRESS == 115
EINVAL == 22
EFAULT == 14
EAGAIN == 11
EALREADY == 114
ENOENT == 2
ENOMEM == 12
ERESTARTSYS == 512

(******************************** model bounds ****************************)
\* number of operations the user contexts start in one behaviour
MaxOps == 3
\* number of bursts of interrupt events
MaxIrq == 2
\* number of interrupt events whose time stamps are followed one by one
MaxEvents == 4
\* number of consecutive calls of lrng_pool_lfsr_u32 on a prepared pool
MaxMix == 2
\* number of failing backend / allocation calls in one behaviour
MaxFaults == 1
\* number of advances of the jiffies clock
MaxTicks == 1
\* jiffies per second (kernel configuration value)
HZ == 100

(********************************* helpers ********************************)
Min(a, b) == IF a <= b THEN a ELSE b
Min3(a, b, c) == Min(a, Min(b, c))
\* A u32 value v is held as the integer v when v < 2^31 and as v - 2^32
\* otherwise (its two's-complement reading): the sum, difference and product
\* of two held values is the held value of the u32 result.  The unsigned
\* order and min_t(u32, a, b) on held values:
u32_lt(a, b) == IF (a >= 0) = (b >= 0) THEN a < b ELSE a >= 0
u32_min(a, b) == IF u32_lt(b, a) THEN b ELSE a
RoundDown8(x) == x - (x % 8)

\* the two crypto callback sets: the built-in ChaCha20 one and lrng_kcapi_crypto_cb
CC20 == "lrng_cc20_crypto_cb"
KCAPI == "lrng_kcapi_crypto_cb"
Backends == {CC20, KCAPI}

\* statically allocated generator states
PRIMARY_CHACHA20 == 0
SECONDARY_CHACHA20 == 1
\* lrng_pool.lrng_hash before a backend allocated a hash: a NULL pointer
NULL_HASH == -1

\* crypto_cb->lrng_hash_digestsize(): SHA-1 for the built-in hash, pool_hash
\* "sha512" for the kernel crypto API backend
HashDigestSize(cb) == IF cb = CC20 THEN 20 ELSE 64

(************************ entropy <-> event conversion ********************)
\* lrng_entropy_to_data() for a given irq_entropy_bits
lrng_entropy_to_data(entropy_bits, ieb) ==
    (entropy_bits * ieb) \div LRNG_DRNG_SECURITY_STRENGTH_BITS

\* the smallest event count whose u32 product with
\* LRNG_DRNG_SECURITY_STRENGTH_BITS wraps: 2^32 / 256
EventsAtWrap == 65536 * (65536 \div LRNG_DRNG_SECURITY_STRENGTH_BITS)

\* lrng_data_to_entropy() for a given non-zero irq_entropy_bits: the u32
\* product irqnum * LRNG_DRNG_SECURITY_STRENGTH_BITS wraps at 2^32, so it is
\* the product of irqnum % EventsAtWrap; the quotient of the product m * 256
\* by ieb is taken in two parts, (m \div ieb) * 256 and the quotient of the
\* remainder, which are both below 2^31
lrng_data_to_entropy(irqnum, ieb) ==
    LET m == irqnum % EventsAtWrap
    IN (m \div ieb) * LRNG_DRNG_SECURITY_STRENGTH_BITS
          + ((m % ieb) * LRNG_DRNG_SECURITY_STRENGTH_BITS) \div ieb

\* The outcomes of the u32 division in lrng_data_to_entropy: with a zero divisor
\* the division is undefined; the build either traps (a divide error that
\* ends the context) or yields 0.
DataToEntropyOutcomes(irqnum, ieb) ==
    IF ieb = 0
    THEN {[trap |-> TRUE, v |-> 0], [trap |-> FALSE, v |-> 0]}
    ELSE {[trap |-> FALSE, v |-> lrng_data_to_entropy(irqnum, ieb)]}

(****************************** lrng_hash_pool ****************************)
\* The loop of lrng_hash_pool: i is the loop index, avail the remaining
\* avail_entropy_bytes, gen the generated_bytes, okiter the number of
\* lrng_hash_buffer calls that still succeed.
RECURSIVE HashPoolLoop(_, _, _, _, _)
HashPoolLoop(i, avail, gen, digestsize, okiter) ==
    IF i < LRNG_DRNG_SECURITY_STRENGTH_BYTES /\ avail > 0
    THEN IF okiter = 0
         THEN gen
         ELSE LET tocopy == Min3(avail, digestsize,
                                 LRNG_DRNG_SECURITY_STRENGTH_BYTES - i)
              IN HashPoolLoop(i + digestsize, avail - tocopy, gen + tocopy,
                              digestsize, okiter - 1)
    ELSE gen

\* number of lrng_hash_buffer calls (= digests mixed back into the pool)
RECURSIVE HashPoolIters(_, _, _, _)
HashPoolIters(i, avail, digestsize, okiter) ==
    IF i < LRNG_DRNG_SECURITY_STRENGTH_BYTES /\ avail > 0 /\ okiter > 0
    THEN 1 + HashPoolIters(i + digestsize,
                           avail - Min3(avail, digestsize,
                                        LRNG_DRNG_SECURITY_STRENGTH_BYTES - i),
                           digestsize, okiter - 1)
    ELSE 0

\* lrng_hash_pool(outbuf, avail_entropy_bits): returns generated_bytes << 3
lrng_hash_pool(avail_entropy_bits, digestsize, okiter) ==
    LET bytes == avail_entropy_bits \div 8
        capped == IF bytes > LRNG_DRNG_SECURITY_STRENGTH_BYTES
                  THEN LRNG_DRNG_SECURITY_STRENGTH_BYTES ELSE bytes
    IN HashPoolLoop(0, capped, 0, digestsize, okiter) * 8

(************************* lrng_get_pool, first part **********************)

\* avail_entropy_bits of a lrng_get_pool without the emergency fill level
GetPoolAvail_no_reserve(de, requested_entropy_bits, drain) ==
    RoundDown8(Min(Min(de, LRNG_POOL_SIZE_BITS), requested_entropy_bits))

\* avail_entropy_bits of lrng_get_pool before the hash: de is the converted
\* event count; the result -1 stands for the "goto out" of the non-draining read
GetPoolAvail(de, requested_entropy_bits, drain) ==
    LET capped == Min(de, LRNG_POOL_SIZE_BITS)
    IN IF drain
       THEN RoundDown8(Min(capped, requested_entropy_bits))
       ELSE IF requested_entropy_bits + LRNG_EMERG_ENTROPY > capped
            THEN -1
            ELSE RoundDown8(requested_entropy_bits)

\* events added back when the requested 256 bits are debited whatever was
\* obtained
GetPoolEventsBack_debits_request(irq_num_events, avail_entropy_bits, ieb) ==
    irq_num_events
        - lrng_entropy_to_data(LRNG_DRNG_SECURITY_STRENGTH_BITS, ieb)


\* events added back without the cap at the capacity of the pool
GetPoolEventsBack_uncapped(irq_num_events, avail_entropy_bits, ieb) ==
    irq_num_events - lrng_entropy_to_data(avail_entropy_bits, ieb)

\* irq_num_event_back of lrng_get_pool (u32 arithmetic)
GetPoolEventsBack(irq_num_events, avail_entropy_bits, ieb) ==
    LET used == lrng_entropy_to_data(avail_entropy_bits, ieb)
    IN u32_min(irq_num_events - used,
               lrng_entropy_to_data(LRNG_POOL_SIZE_BITS, ieb) - used)

\* the interrupt events of the seeding scenario: as many as the primary DRNG
\* needs bits for a full seed; they arrive in bursts of the size of the
\* initial reseed threshold
SeedEvents == LRNG_DRNG_SECURITY_STRENGTH_BITS
EventBurst == LRNG_INIT_ENTROPY_BITS

(**************************** primary DRNG state **************************)
\* seeding level the flags of a primary DRNG record stand for: fully seeded,
\* minimally seeded, or neither
Level(p) == IF p.pdrng_fully_seeded THEN 2
            ELSE IF p.pdrng_min_seeded THEN 1
            ELSE 0

\* a reset that leaves the primary DRNG as it is
lrng_pdrng_reset_keeps(p) == p

\* lrng_pdrng_reset()
lrng_pdrng_reset(p) ==
    [p EXCEPT !.pdrng_entropy_bits = 0,
              !.pdrng_fully_seeded = FALSE,
              !.pdrng_min_seeded = FALSE]

\* Which branch lrng_pdrng_init_ops(entropy_bits) takes:
\* "full", "min", "init" or "none"
InitOpsBranch(p, entropy_bits) ==
    IF p.pdrng_fully_seeded THEN "none"
    ELSE IF entropy_bits >= LRNG_DRNG_SECURITY_STRENGTH_BITS THEN "full"
    ELSE IF ~p.pdrng_min_seeded
         THEN IF entropy_bits >= LRNG_MIN_SEED_ENTROPY_BITS THEN "min"
              ELSE IF entropy_bits >= LRNG_INIT_ENTROPY_BITS THEN "init"
              ELSE "none"
         ELSE "none"

\* seeding flags that follow the entropy level down as well as up
lrng_pdrng_init_ops_tracking(p, entropy_bits) ==
    [p EXCEPT !.pdrng_fully_seeded =
                  entropy_bits >= LRNG_DRNG_SECURITY_STRENGTH_BITS,
              !.pdrng_min_seeded =
                  entropy_bits >= LRNG_MIN_SEED_ENTROPY_BITS]

\* the seeding flags after lrng_pdrng_init_ops(entropy_bits)
lrng_pdrng_init_ops(p, entropy_bits) ==
    LET b == InitOpsBranch(p, entropy_bits)
    IN IF b = "full"
       THEN [p EXCEPT !.pdrng_fully_seeded = TRUE, !.pdrng_min_seeded = TRUE]
       ELSE IF b = "min"
       THEN [p EXCEPT !.pdrng_min_seeded = TRUE]
       ELSE p

\* the entropy threshold (in bits) lrng_pdrng_init_ops hands to
\* lrng_set_entropy_thresh, or -1 when it leaves the threshold alone
InitOpsThresh(p, entropy_bits) ==
    LET b == InitOpsBranch(p, entropy_bits)
    IN IF b \in {"full", "min"} THEN LRNG_DRNG_SECURITY_STRENGTH_BITS
       ELSE IF b = "init" THEN LRNG_MIN_SEED_ENTROPY_BITS
       ELSE -1

\* lrng_pdrng_generate's caps without the test of fullentropy
PdrngGenerateLen_ungated(p, outbuflen, fullentropy) ==
    IF p.pdrng_min_seeded
    THEN Min(outbuflen, p.pdrng_entropy_bits \div 8)
    ELSE Min(outbuflen, LRNG_MIN_SEED_ENTROPY_BITS \div 8)

\* outbuflen of lrng_pdrng_generate after the caps (0: nothing is generated)
PdrngGenerateLen(p, outbuflen, fullentropy) ==
    IF fullentropy /\ ~p.pdrng_fully_seeded THEN 0
    ELSE IF p.pdrng_min_seeded
         THEN Min(outbuflen, p.pdrng_entropy_bits \div 8)
         ELSE Min(outbuflen, LRNG_MIN_SEED_ENTROPY_BITS \div 8)

\* a lrng_pdrng_generate that hands out the whole request and debits nothing
lrng_pdrng_generate_unmetered(p, outbuflen, fullentropy, backend_ok) ==
    [ret |-> outbuflen, p |-> p]

\* a lrng_pdrng_generate that resets the primary DRNG when the backend fails
lrng_pdrng_generate_resetting(p, outbuflen, fullentropy, backend_ok) ==
    LET len == PdrngGenerateLen(p, outbuflen, fullentropy)
    IN IF len = 0 THEN [ret |-> 0, p |-> p]
       ELSE IF ~backend_ok THEN [ret |-> -EFAULT, p |-> lrng_pdrng_reset(p)]
       ELSE [ret |-> len,
             p |-> [p EXCEPT !.pdrng_entropy_bits =
                        IF u32_lt(len * 8, p.pdrng_entropy_bits)
                        THEN p.pdrng_entropy_bits - len * 8
                        ELSE 0]]

\* lrng_pdrng_generate(outbuf, outbuflen, fullentropy); backend_ok tells whether
\* lrng_drng_generate_helper_full succeeds.  Result: [ret, p].
lrng_pdrng_generate(p, outbuflen, fullentropy, backend_ok) ==
    LET len == PdrngGenerateLen(p, outbuflen, fullentropy)
    IN IF len = 0 THEN [ret |-> 0, p |-> p]
       ELSE IF ~backend_ok THEN [ret |-> -EFAULT, p |-> p]
       ELSE [ret |-> len,
             p |-> [p EXCEPT !.pdrng_entropy_bits =
                        IF u32_lt(len * 8, p.pdrng_entropy_bits)
                        THEN p.pdrng_entropy_bits - len * 8
                        ELSE 0]]

\* lrng_pdrng_inject's accounting without the cap at the length of inbuf
PdrngInjectBits_uncapped(p, inbuflen, entropy_bits) ==
    u32_min(p.pdrng_entropy_bits + entropy_bits,
            LRNG_DRNG_SECURITY_STRENGTH_BITS)

\* the entropy accounting of lrng_pdrng_inject after a successful seed
PdrngInjectBits(p, inbuflen, entropy_bits) ==
    u32_min(p.pdrng_entropy_bits + u32_min(entropy_bits, inbuflen * 8),
            LRNG_DRNG_SECURITY_STRENGTH_BITS)


(********************************** state *********************************)
Users == {"t1", "t2"}
Worker == "kw"
Contexts == Users \cup {Worker}
Nodes == {0, 1, 2}
NULL == "NULL"
\* the table lrng_sdrng while it is the NULL pointer
NoTable == <<>>
\* the CPUs that take interrupts
Cpus == {"cpu0", "cpu1"}

VARIABLES
    pdrng,          \* struct lrng_pdrng lrng_pdrng (without lock and work item)
    pdrng_lock,     \* holder of lrng_pdrng.lock, or NULL
    sdrng,          \* the struct lrng_sdrng instances: lrng_sdrng_init,
                    \* lrng_sdrng_atomic and the per-node instances
    lrng_sdrng,     \* the per-node table lrng_sdrng: NoTable or [Nodes -> instance]
    irq_info,       \* lrng_pool.irq_info: num_events, num_events_thresh,
                    \* reseed_in_progress, irq_entropy_bits, irq_highres_timer,
                    \* stuck_test
    all_online_numa_node_seeded,    \* lrng_pool.all_online_numa_node_seeded
    lrng_hash,      \* lrng_pool.lrng_hash (a handle)
    lrng_pdrng_avail,
    lrng_sdrng_reseed_max_time,
    lrng_crypto_cb_update,          \* holder of that mutex, or NULL
    lrng_ready_list,                \* the callbacks queued on lrng_ready_list
    fired,          \* per callback: calls of rdy->func since it was last queued
    work_pending,   \* lrng_pdrng.lrng_seed_work is queued
    archrandom,     \* module parameter archrandom (bits credited per reseed)
    jitterrng,      \* module parameter jitterrng
    jiffies,
    highres_timer,  \* random_get_entropy() returns time stamps on this platform
    fips_enabled,   \* CONFIG_CRYPTO_FIPS is set and the kernel runs in FIPS mode
    lrng_pool,      \* lrng_pool: pool (the words), pool_ptr, input_rotate
    irq,            \* per CPU: the interrupt handler add_interrupt_randomness
                    \* it is running (its position and its local variables)
    next_handle,    \* next handle an lrng_drng_alloc / lrng_hash_alloc returns
    freed,          \* handles handed to lrng_drng_dealloc / lrng_hash_dealloc
    alloc_cb,       \* per handle: the callback set whose lrng_drng_alloc or
                    \* lrng_hash_alloc returned it
    pc,             \* per context: the statement it is at
    loc,            \* per context: the local variables of its functions
    nops, nirq, nfaults, nticks     \* how much of each bound is used up

vars == <<pdrng, pdrng_lock, sdrng, lrng_sdrng, irq_info,
          all_online_numa_node_seeded, lrng_hash, lrng_pdrng_avail,
          lrng_sdrng_reseed_max_time, lrng_crypto_cb_update, lrng_ready_list,
          fired, work_pending, archrandom, jitterrng, jiffies, highres_timer,
          fips_enabled, lrng_pool, irq,
          next_handle,
          freed, alloc_cb, pc, loc, nops, nirq, nfaults, nticks>>

\* groups of variables, by the code that owns them
pdrngVars == <<pdrng, pdrng_lock>>
sdrngVars == <<sdrng, lrng_sdrng, all_online_numa_node_seeded,
               lrng_sdrng_reseed_max_time>>
switchVars == <<lrng_hash, lrng_crypto_cb_update, next_handle, freed, alloc_cb>>
readyVars == <<lrng_ready_list, fired>>
envVars == <<archrandom, jitterrng, jiffies, highres_timer, nirq, nticks,
             fips_enabled, lrng_pool, irq>>

\* local variables of one context; op is its top-level operation and opn the
\* ordinal of that operation in the behaviour, rpc is its stack of return
\* addresses, gf the stack of lrng_sdrng_get frames it has open
LocInit ==
    [op |-> "none", opn |-> 0, rpc |-> <<>>, gf |-> <<>>,
     outbuflen |-> 0, fullentropy |-> FALSE, drain |-> FALSE,
     retrieved |-> 0, ret |-> 0,
     irq_num_events |-> 0, avail |-> 0, total |-> 0,
     inbuflen |-> 0, entropy_bits |-> 0, has_out |-> FALSE,
     count |-> 0, ent_left |-> 0, orig_ent |-> 0,
     cb |-> CC20, new_pdrng |-> 0, new_hash |-> 0, node |-> 0,
     sinst |-> "init", seed_func |-> "cas", atomic_ctx |-> FALSE,
     work_sdrng |-> "init",
     req |-> 0, spin |-> FALSE, used_cb |-> CC20, used_sdrng |-> 0,
     new_sdrng |-> 0, reset_sdrng |-> FALSE, sdrngs |-> <<>>]

\* the static initializer of lrng_pool: all words zero (a word is the set of
\* the positions of its one bits, position 0 the least significant)
PoolInit ==
    [pool |-> [i \in 0..(LRNG_POOL_SIZE - 1) |-> {}],
     pool_ptr |-> 0, input_rotate |-> 0]

\* a CPU that is not in add_interrupt_randomness. In the handler: its position
\* pc, the time stamp now_time of the event, the words that are still to be
\* mixed (todo; first: the time stamp is the word being mixed), the local
\* variables value, ptr, input_rotate and word of lrng_pool_lfsr_u32 (tap:
\* the number of pool words read so far), the local variables delta, delta2
\* and delta3 of lrng_irq_stuck, and, for the statements about a whole event,
\* the pool, the stuck test values and the event counter met at entry
IrqIdle ==
    [pc |-> "idle", now_time |-> 0, todo |-> <<>>, first |-> FALSE,
     value |-> {}, ptr |-> 0, input_rotate |-> 0, word |-> {}, tap |-> 0,
     delta |-> 0, delta2 |-> 0, delta3 |-> 0,
     pool0 |-> PoolInit, last0 |-> <<0, 0, 0>>, events0 |-> 0]

\* the local variables of a context that starts the top-level operation op
NewOp(op) == [LocInit EXCEPT !.opn = nops + 1, !.op = op]

\* struct lrng_sdrng as the static initialisers leave it
SdrngStatic ==
    [sdrng |-> SECONDARY_CHACHA20, crypto_cb |-> CC20, requests |-> 0,
     last_seeded |-> 0, fully_seeded |-> FALSE, force_reseed |-> FALSE,
     lock |-> NULL, spin_lock |-> NULL]

\* the static initializer of lrng_pool.irq_info
IrqInfoInit ==
    [num_events |-> 0, num_events_thresh |-> LRNG_INIT_ENTROPY_BITS,
     reseed_in_progress |-> 0, irq_entropy_bits |-> 0,
     irq_highres_timer |-> FALSE, stuck_test |-> TRUE,
     last_time |-> 0, last_delta |-> 0, last_delta2 |-> 0,
     crngt_ctr |-> LRNG_FIPS_CRNGT]

\* a timer detection that credits every interrupt event with two bits
TimerDetectTwoBits(info) ==
    [info EXCEPT !.irq_highres_timer = TRUE,
                 !.irq_entropy_bits = LRNG_IRQ_ENTROPY_BITS \div 2]

\* the timer detection of lrng_drngs_init_cc20: random_get_entropy() returns
\* 0 where there is no high-resolution time stamp
TimerDetect(info) ==
    IF highres_timer
    THEN [info EXCEPT !.irq_highres_timer = TRUE,
                      !.irq_entropy_bits = LRNG_IRQ_ENTROPY_BITS]
    ELSE [info EXCEPT !.stuck_test = FALSE,
                      !.irq_entropy_bits = LRNG_IRQ_ENTROPY_BITS *
                                           LRNG_IRQ_OVERSAMPLING_FACTOR]

\* the static data other than the secondary instances, the entropy pool
\* and lrng_pdrng_avail
InitStatic ==
    /\ pdrng = [pdrng |-> PRIMARY_CHACHA20, crypto_cb |-> CC20,
                pdrng_fully_seeded |-> FALSE, pdrng_min_seeded |-> FALSE,
                pdrng_entropy_bits |-> 0]
    /\ pdrng_lock = NULL
    /\ lrng_sdrng = NoTable
    /\ all_online_numa_node_seeded = FALSE
    /\ lrng_hash = NULL_HASH
    /\ irq = [c \in Cpus |-> IrqIdle]
    /\ lrng_sdrng_reseed_max_time = SDRNG_RESEED_MAX_TIME_INIT
    /\ lrng_crypto_cb_update = NULL
    /\ lrng_ready_list = {}
    /\ fired = [c \in Users |-> 0]
    /\ work_pending = FALSE
    /\ jiffies = 0
    /\ next_handle = 2
    /\ freed = {}
    /\ alloc_cb = [h \in {PRIMARY_CHACHA20, SECONDARY_CHACHA20} |-> CC20]
    /\ pc = [t \in Contexts |-> "idle"]
    /\ loc = [t \in Contexts |-> LocInit]
    /\ nops = 0 /\ nticks = 0

\* the state before the first call of lrng_drngs_init_cc20
InitCommon ==
    /\ InitStatic
    /\ sdrng = [i \in {"init", "atomic"} |-> SdrngStatic]
    /\ irq_info = IrqInfoInit
    /\ lrng_pool = PoolInit
    /\ lrng_pdrng_avail = 0
    /\ nirq = 0

(******************************* call / return ****************************)
\* the outcomes of a backend call: TRUE (success) and, while the fault budget
\* lasts, FALSE (the callback returns an error)
BackendOutcomes == IF nfaults < MaxFaults THEN {TRUE, FALSE} ELSE {TRUE}
Fault(ok) == nfaults' = IF ok THEN nfaults ELSE nfaults + 1

\* return from the current function with value v
ReturnLoc(l, v) == [l EXCEPT !.rpc = Tail(@), !.ret = v]
Return(t, l, v) ==
    /\ pc' = [pc EXCEPT ![t] = Head(l.rpc)]
    /\ loc' = [loc EXCEPT ![t] = ReturnLoc(l, v)]

\* the context finishes its top-level operation l.op(l.cb) with result v; its
\* other local variables go out of scope
Finish(t, l, v) ==
    /\ pc' = [pc EXCEPT ![t] = "idle"]
    /\ loc' = [loc EXCEPT ![t] = [LocInit EXCEPT !.op = l.op, !.opn = l.opn,
                                                !.cb = l.cb, !.ret = v]]

Goto(t, label) == pc' = [pc EXCEPT ![t] = label]

\* time_after(a, b) on the model's unbounded jiffies
time_after(a, b) == a > b


(************************** lrng_drngs_init_cc20 **************************)
\* lrng_sdrng_reset()
lrng_sdrng_reset(s) ==
    [s EXCEPT !.requests = LRNG_DRNG_RESEED_THRESH, !.last_seeded = jiffies,
              !.fully_seeded = FALSE, !.force_reseed = TRUE]

\* lrng_sdrng_is_atomic(): the instance uses the DRNG of lrng_sdrng_atomic
lrng_sdrng_is_atomic(s) == s.sdrng = sdrng["atomic"].sdrng

\* lrng_sdrng_lock() does not have to wait: the spin lock of the instance, or
\* its mutex, is free
SdrngLockFree(s) ==
    IF lrng_sdrng_is_atomic(s) THEN s.spin_lock = NULL ELSE s.lock = NULL

\* the instance after lrng_sdrng_lock() by context t
SdrngLocked(s, t) ==
    IF lrng_sdrng_is_atomic(s) THEN [s EXCEPT !.spin_lock = t]
    ELSE [s EXCEPT !.lock = t]

\* the instance after lrng_sdrng_unlock(): a spin lock that is locked (by
\* whichever context) is unlocked, otherwise the mutex is
lrng_sdrng_unlock(s) ==
    IF s.spin_lock # NULL THEN [s EXCEPT !.spin_lock = NULL]
    ELSE [s EXCEPT !.lock = NULL]

\* the unlocked test of lrng_pdrng_avail at the head of lrng_drngs_init_cc20
InitCheck(t) ==
    /\ pc[t] = "init_check"
    /\ IF lrng_pdrng_avail = 1
       THEN Return(t, loc[t], loc[t].ret)
       ELSE Goto(t, "init_sdrng") /\ UNCHANGED loc
    /\ UNCHANGED <<pdrngVars, sdrngVars, switchVars, readyVars, envVars,
                   irq_info, lrng_pdrng_avail, work_pending, nops, nfaults>>

\* under the lock of lrng_sdrng_init: the second test of lrng_pdrng_avail, the
\* timer detection (random_get_entropy() returns 0 where there is no
\* high-resolution time stamp) and the reset of lrng_sdrng_init; then, under
\* the lock of lrng_sdrng_atomic, its reset
InitSdrng(t) ==
    /\ pc[t] = "init_sdrng"
    /\ SdrngLockFree(sdrng["init"])
    /\ IF lrng_pdrng_avail = 1
       THEN /\ Return(t, loc[t], loc[t].ret)
            /\ sdrng' = [sdrng EXCEPT
                            !["init"] = lrng_sdrng_unlock(SdrngLocked(@, t))]
            /\ UNCHANGED irq_info
       ELSE /\ irq_info' = TimerDetect(irq_info)
            /\ sdrng' = [sdrng EXCEPT
                            !["init"] = lrng_sdrng_unlock(
                                           lrng_sdrng_reset(SdrngLocked(@, t))),
                            !["atomic"] = lrng_sdrng_reset(@)]
            /\ Goto(t, "init_pdrng") /\ UNCHANGED loc
    /\ UNCHANGED <<pdrngVars, lrng_sdrng, all_online_numa_node_seeded,
                   lrng_sdrng_reseed_max_time, switchVars, readyVars, envVars,
                   lrng_pdrng_avail, work_pending, nops, nfaults>>

\* the reset of lrng_drngs_init_cc20 without the mutex_lock
InitPdrng_unlocked(t) ==
    /\ pc[t] = "init_pdrng"
    /\ pdrng' = lrng_pdrng_reset(pdrng)
    /\ lrng_pdrng_avail' = 1
    /\ Return(t, loc[t], loc[t].ret)
    /\ UNCHANGED <<pdrng_lock, sdrngVars, switchVars, readyVars, envVars,
                   irq_info, work_pending, nops, nfaults>>

\* under lrng_pdrng.lock: lrng_pdrng_reset(), INIT_WORK, lrng_pdrng_avail = 1
InitPdrng(t) ==
    /\ pc[t] = "init_pdrng"
    /\ pdrng_lock = NULL
    /\ pdrng' = lrng_pdrng_reset(pdrng)
    /\ lrng_pdrng_avail' = 1
    /\ Return(t, loc[t], loc[t].ret)
    /\ UNCHANGED <<pdrng_lock, sdrngVars, switchVars, readyVars, envVars,
                   irq_info, work_pending, nops, nfaults>>

(****************************** lrng_pdrng_get ****************************)
\* lengths of a /dev/random read (lrng_pdrng_read_common caps them at
\* LRNG_DRNG_BLOCKSIZE)
PdrngGetLens == {16, 64}

\* lrng_pdrng_get(outbuf, outbuflen) up to its call of lrng_drngs_init_cc20
PdrngGetCall(t, len) ==
    /\ pc[t] = "idle" /\ nops < MaxOps
    /\ nops' = nops + 1
    /\ loc' = [loc EXCEPT ![t] =
                  [NewOp("pdrng_get") EXCEPT !.outbuflen = len,
                                  !.fullentropy = TRUE, !.drain = TRUE,
                                  !.rpc = <<"ps_cas", "pg_ret">>]]
    /\ Goto(t, "init_check")

\* a read of /dev/random of one of the lengths of PdrngGetLens
StartPdrngGet(t) ==
    /\ \E len \in PdrngGetLens : PdrngGetCall(t, len)
    /\ UNCHANGED <<pdrngVars, sdrngVars, switchVars, readyVars, envVars,
                   irq_info, lrng_pdrng_avail, work_pending, nfaults>>

\* lrng_pdrng_seed(): the compare-and-swap on reseed_in_progress
PdrngSeed(t) ==
    /\ pc[t] = "ps_cas"
    /\ IF irq_info.reseed_in_progress # 0
       THEN /\ Return(t, loc[t], -EINPROGRESS)
            /\ UNCHANGED irq_info
       ELSE /\ irq_info' = [irq_info EXCEPT !.reseed_in_progress = 1]
            /\ Goto(t, "sl_gen")
            /\ UNCHANGED loc
    /\ UNCHANGED <<pdrngVars, sdrngVars, switchVars, readyVars, envVars,
                   lrng_pdrng_avail, work_pending, nops, nfaults>>

\* the value lrng_pdrng_get returns for the value ret of lrng_pdrng_seed
PdrngGetResult(ret) == IF ret = -EINPROGRESS THEN 0 ELSE ret

\* lrng_pdrng_get() after lrng_pdrng_seed returned
PdrngGetRet(t) ==
    /\ pc[t] = "pg_ret"
    /\ Finish(t, loc[t], PdrngGetResult(loc[t].ret))
    /\ UNCHANGED <<pdrngVars, sdrngVars, switchVars, readyVars, envVars,
                   irq_info, lrng_pdrng_avail, work_pending, nops, nfaults>>


(************************* lrng_pdrng_seed_locked *************************)
\* the context takes a divide error: it never returns
Oops(t) == pc' = [pc EXCEPT ![t] = "oops"]

\* "Get available entropy in primary DRNG": the first lrng_pdrng_generate of
\* lrng_pdrng_seed_locked, under lrng_pdrng.lock; a request that is satisfied
\* in full leaves through "out", which clears reseed_in_progress
SeedLockedGenerate(t) ==
    /\ pc[t] = "sl_gen"
    /\ IF pdrng.pdrng_entropy_bits \div 8 = 0
       THEN /\ Goto(t, "gp_xchg")
            /\ UNCHANGED <<pdrng, irq_info, loc, nfaults>>
       ELSE /\ pdrng_lock = NULL
            /\ \E ok \in BackendOutcomes :
                 LET g == lrng_pdrng_generate(pdrng, loc[t].outbuflen,
                                              loc[t].fullentropy, ok)
                     l == loc[t]
                 IN /\ Fault(ok \/ PdrngGenerateLen(pdrng, l.outbuflen,
                                                    l.fullentropy) = 0)
                    /\ pdrng' = g.p
                    /\ IF g.ret > 0 /\ g.ret = l.outbuflen
                       THEN /\ irq_info' = [irq_info EXCEPT
                                               !.reseed_in_progress = 0]
                            /\ Return(t, [l EXCEPT !.retrieved = @ + g.ret],
                                      l.retrieved + g.ret)
                       ELSE /\ Goto(t, "gp_xchg")
                            /\ loc' = [loc EXCEPT ![t] =
                                   IF g.ret > 0
                                   THEN [l EXCEPT !.retrieved = @ + g.ret,
                                                  !.outbuflen = @ - g.ret,
                                                  !.ret = g.ret]
                                   ELSE [l EXCEPT !.ret = g.ret]]
                            /\ UNCHANGED irq_info
    /\ UNCHANGED <<pdrng_lock, sdrngVars, switchVars, readyVars, envVars,
                   lrng_pdrng_avail, work_pending, nops>>

(******************************* lrng_get_pool ****************************)
\* lrng_get_pool(outbuf, LRNG_DRNG_SECURITY_STRENGTH_BITS, drain), first half:
\* the atomic_xchg of num_events and the computation of avail_entropy_bits
GetPoolXchg(t) ==
    /\ pc[t] = "gp_xchg"
    /\ irq_info' = [irq_info EXCEPT !.num_events = 0]
    /\ \E de \in DataToEntropyOutcomes(irq_info.num_events,
                                       irq_info.irq_entropy_bits) :
          IF de.trap
          THEN Oops(t) /\ UNCHANGED loc
          ELSE /\ Goto(t, "gp_hash")
               /\ loc' = [loc EXCEPT
                     ![t].irq_num_events = irq_info.num_events,
                     ![t].avail = GetPoolAvail(de.v,
                                     LRNG_DRNG_SECURITY_STRENGTH_BITS,
                                     loc[t].drain)]
    /\ UNCHANGED <<pdrngVars, sdrngVars, switchVars, readyVars, envVars,
                   lrng_pdrng_avail, work_pending, nops, nfaults>>

\* the entropy lrng_get_pool returns: nothing after "goto out", else what
\* lrng_hash_pool produced
GetPoolBits(avail, digestsize, okiter) ==
    IF avail < 0 THEN 0 ELSE lrng_hash_pool(avail, digestsize, okiter)

\* the numbers of lrng_hash_buffer calls that may succeed before one fails
HashOutcomes(avail) ==
    IF avail > 0 /\ nfaults < MaxFaults THEN {0, 1, 2} ELSE {2}

\* lrng_get_pool, second half: lrng_hash_pool under lrng_pdrng.lock, the second
\* atomic_xchg of num_events and the atomic_add of the unused events
GetPoolHash(t) ==
    /\ pc[t] = "gp_hash"
    /\ loc[t].avail >= 0 => pdrng_lock = NULL
    /\ \E okiter \in HashOutcomes(loc[t].avail) :
         LET l == loc[t]
             ieb == irq_info.irq_entropy_bits
             bits == GetPoolBits(l.avail, HashDigestSize(pdrng.crypto_cb),
                                 okiter)
             events == l.irq_num_events + irq_info.num_events
         IN /\ Fault(bits = RoundDown8(Min(IF l.avail < 0 THEN 0 ELSE l.avail,
                                           LRNG_DRNG_SECURITY_STRENGTH_BITS)))
            /\ irq_info' = [irq_info EXCEPT
                               !.num_events =
                                   GetPoolEventsBack(events, bits, ieb)]
            /\ loc' = [loc EXCEPT ![t].irq_num_events = events,
                                  ![t].total = bits]
    /\ Goto(t, "sl_noise")
    /\ UNCHANGED <<pdrngVars, sdrngVars, switchVars, readyVars, envVars,
                   lrng_pdrng_avail, work_pending, nops>>

\* the entropy lrng_get_arch() credits: min_t(u32, archrandom, 256)
lrng_get_arch == u32_min(archrandom, LRNG_DRNG_SECURITY_STRENGTH_BITS)

\* the entropy lrng_get_jent() credits: min_t(u32, jitterrng, 256)
lrng_get_jent == u32_min(jitterrng, LRNG_DRNG_SECURITY_STRENGTH_BITS)

\* lrng_get_arch() and lrng_get_jent() add their entropy estimates; then
\* lrng_pdrng_seed_locked calls lrng_pdrng_inject on the whole entropy_buf
SeedLockedNoise(t) ==
    /\ pc[t] = "sl_noise"
    /\ loc' = [loc EXCEPT
                  ![t].total = @ + lrng_get_arch + lrng_get_jent,
                  ![t].inbuflen = ENTROPY_BUF_BYTES,
                  ![t].entropy_bits =
                      loc[t].total + lrng_get_arch + lrng_get_jent,
                  ![t].has_out = TRUE,
                  ![t].rpc = <<"sl_after">> \o @]
    /\ Goto(t, "inj_seed")
    /\ UNCHANGED <<pdrngVars, sdrngVars, switchVars, readyVars, envVars,
                   irq_info, lrng_pdrng_avail, work_pending, nops, nfaults>>

\* lrng_pdrng_seed_locked after lrng_pdrng_inject: the test lrng_need_entropy()
\* (which converts num_events), and "out": reseed_in_progress is cleared
SeedLockedOut(t) ==
    /\ pc[t] = "sl_after"
    /\ \E de \in DataToEntropyOutcomes(irq_info.num_events,
                                       irq_info.irq_entropy_bits) :
          IF de.trap
          THEN Oops(t) /\ UNCHANGED <<loc, irq_info>>
          ELSE LET l == loc[t]
                   got == IF l.ret > 0 THEN l.retrieved + l.ret
                          ELSE l.retrieved
               IN /\ irq_info' = [irq_info EXCEPT !.reseed_in_progress = 0]
                  /\ Return(t, [l EXCEPT !.retrieved = got],
                            IF l.ret >= 0 THEN got ELSE l.ret)
    /\ UNCHANGED <<pdrngVars, sdrngVars, switchVars, readyVars, envVars,
                   lrng_pdrng_avail, work_pending, nops, nfaults>>


(**************************** lrng_pdrng_inject ***************************)
\* a lrng_set_entropy_thresh that also clears the event counter
lrng_set_entropy_thresh_clearing(ii, new) ==
    IF new < 0 THEN ii
    ELSE [ii EXCEPT !.num_events = 0,
                    !.num_events_thresh =
                        lrng_entropy_to_data(new, ii.irq_entropy_bits)]

\* lrng_set_entropy_thresh(new), where new < 0 leaves the threshold alone
lrng_set_entropy_thresh(ii, new) ==
    IF new < 0 THEN ii
    ELSE [ii EXCEPT !.num_events_thresh =
                        lrng_entropy_to_data(new, ii.irq_entropy_bits)]

\* lrng_pdrng_inject: mutex_lock, lrng_drng_seed_helper, the update of the
\* entropy level and lrng_pdrng_init_ops up to its lrng_set_entropy_thresh.
\* A failed seed leaves through "unlock".
InjectSeed(t) ==
    /\ pc[t] = "inj_seed"
    /\ pdrng_lock = NULL
    /\ \E ok \in BackendOutcomes :
         /\ Fault(ok)
         /\ IF ~ok
            THEN /\ Goto(t, "inj_post")
                 /\ loc' = [loc EXCEPT ![t].ret = -EFAULT]
                 /\ UNCHANGED <<pdrng, pdrng_lock, irq_info>>
            ELSE LET bits == PdrngInjectBits(pdrng, loc[t].inbuflen,
                                             loc[t].entropy_bits)
                     p1 == [pdrng EXCEPT !.pdrng_entropy_bits = bits]
                     branch == InitOpsBranch(p1, bits)
                 IN /\ pdrng' = lrng_pdrng_init_ops(p1, bits)
                    /\ irq_info' = lrng_set_entropy_thresh(irq_info,
                                       InitOpsThresh(p1, bits))
                    /\ pdrng_lock' = t
                    /\ loc' = [loc EXCEPT ![t].ret = 0]
                    /\ Goto(t, IF branch \in {"full", "min"}
                               THEN "inj_ready" ELSE "inj_gen")
    /\ UNCHANGED <<sdrngVars, switchVars, readyVars, envVars,
                   lrng_pdrng_avail, work_pending, nops>>

\* a list walk that calls every queued callback and leaves it queued
lrng_process_ready_list_keeps(t) ==
    /\ pc[t] = "inj_ready"
    /\ fired' = [c \in Users |->
                    IF c \in lrng_ready_list THEN fired[c] + 1 ELSE fired[c]]
    /\ Goto(t, "inj_wake")
    /\ UNCHANGED <<pdrngVars, sdrngVars, switchVars, envVars, irq_info,
                   lrng_pdrng_avail, work_pending, loc, nops, nfaults,
                   lrng_ready_list>>

\* lrng_process_ready_list(), called by lrng_pdrng_init_ops: every queued
\* callback is unlinked and called
lrng_process_ready_list(t) ==
    /\ pc[t] = "inj_ready"
    /\ fired' = [c \in Users |->
                    IF c \in lrng_ready_list THEN fired[c] + 1 ELSE fired[c]]
    /\ lrng_ready_list' = {}
    /\ Goto(t, "inj_wake")
    /\ UNCHANGED <<pdrngVars, sdrngVars, switchVars, envVars, irq_info,
                   lrng_pdrng_avail, work_pending, loc, nops, nfaults>>

\* lrng_pdrng_init_ops without the wake_up_all
InjectWake_silent(t) ==
    /\ pc[t] = "inj_wake"
    /\ pc' = [pc EXCEPT ![t] = "inj_gen"]
    /\ UNCHANGED <<pdrngVars, sdrngVars, switchVars, readyVars, envVars,
                   irq_info, lrng_pdrng_avail, work_pending, loc, nops,
                   nfaults>>

\* wake_up_all(&lrng_pdrng_init_wait), called by lrng_pdrng_init_ops
InjectWake(t) ==
    /\ pc[t] = "inj_wake"
    /\ pc' = [c \in Contexts |->
                 IF c = t THEN "inj_gen"
                 ELSE IF pc[c] = "wfb_sleep" THEN "wfb_woken" ELSE pc[c]]
    /\ UNCHANGED <<pdrngVars, sdrngVars, switchVars, readyVars, envVars,
                   irq_info, lrng_pdrng_avail, work_pending, loc, nops,
                   nfaults>>

\* lrng_pdrng_inject: the lrng_pdrng_generate for a supplied outbuf, and the
\* mutex_unlock
InjectGenerate(t) ==
    /\ pc[t] = "inj_gen"
    /\ pdrng_lock = t
    /\ pdrng_lock' = NULL
    /\ IF loc[t].has_out /\ loc[t].outbuflen > 0
       THEN \E ok \in BackendOutcomes :
              LET g == lrng_pdrng_generate(pdrng, loc[t].outbuflen,
                                           loc[t].fullentropy, ok)
              IN /\ Fault(ok \/ PdrngGenerateLen(pdrng, loc[t].outbuflen,
                                                 loc[t].fullentropy) = 0)
                 /\ pdrng' = g.p
                 /\ loc' = [loc EXCEPT ![t].ret = g.ret]
       ELSE UNCHANGED <<pdrng, loc, nfaults>>
    /\ Goto(t, "inj_post")
    /\ UNCHANGED <<sdrngVars, switchVars, readyVars, envVars, irq_info,
                   lrng_pdrng_avail, work_pending, nops>>

\* lrng_pdrng_inject after the unlock: the test lrng_have_entropy_full() (which
\* converts num_events) for the wake-up of readers, and the return
InjectReturn(t) ==
    /\ pc[t] = "inj_post"
    /\ \E de \in DataToEntropyOutcomes(irq_info.num_events,
                                       irq_info.irq_entropy_bits) :
          IF de.trap
          THEN Oops(t) /\ UNCHANGED loc
          ELSE Return(t, loc[t], loc[t].ret)
    /\ UNCHANGED <<pdrngVars, sdrngVars, switchVars, readyVars, envVars,
                   irq_info, lrng_pdrng_avail, work_pending, nops, nfaults>>

(*********** lrng_drng_write_common, add_hwgenerator_randomness ***********)
\* (count, entropy_bits) of a write to the device files (no entropy) and of
\* RNDADDENTROPY
WriteRequests == {<<16, 0>>, <<16, 128>>, <<100, 600>>}

\* lrng_drng_write_common(buffer, count, entropy_bits): the test of
\* lrng_pdrng_avail
StartWrite(t) ==
    /\ pc[t] = "idle" /\ nops < MaxOps
    /\ nops' = nops + 1
    /\ \E rq \in WriteRequests :
         IF lrng_pdrng_avail = 0
         THEN Finish(t, NewOp("write"), -EAGAIN)
         ELSE /\ Goto(t, "wr_loop")
              /\ loc' = [loc EXCEPT ![t] =
                     [NewOp("write") EXCEPT !.count = rq[1],
                                     !.ent_left = rq[2], !.orig_ent = rq[2]]]
    /\ UNCHANGED <<pdrngVars, sdrngVars, switchVars, readyVars, envVars,
                   irq_info, lrng_pdrng_avail, work_pending, nfaults>>

\* the loop of lrng_drng_write_common: one chunk goes to lrng_pdrng_inject
WriteLoop(t) ==
    /\ pc[t] = "wr_loop"
    /\ IF loc[t].count > 0
       THEN LET bytes == Min(loc[t].count, WRITE_BUF_BYTES)
                ent == Min(bytes * 8, loc[t].ent_left)
            IN /\ loc' = [loc EXCEPT ![t].inbuflen = bytes,
                                     ![t].entropy_bits = ent,
                                     ![t].has_out = FALSE,
                                     ![t].outbuflen = 0,
                                     ![t].fullentropy = FALSE,
                                     ![t].count = @ - bytes,
                                     ![t].ent_left = @ - ent,
                                     ![t].retrieved = @ + bytes,
                                     ![t].rpc = <<"wr_loop">>]
               /\ Goto(t, "inj_seed")
       ELSE Goto(t, "wr_force") /\ UNCHANGED loc
    /\ UNCHANGED <<pdrngVars, sdrngVars, switchVars, readyVars, envVars,
                   irq_info, lrng_pdrng_avail, work_pending, nops, nfaults>>


\* a force-reseed request that sets the flag of lrng_sdrng_init only
ForceReseedTargets_init_only == {"init"}

\* the secondary instances whose force_reseed a write without entropy sets
ForceReseedTargets ==
    IF lrng_sdrng = NoTable THEN {"init"}
    ELSE {lrng_sdrng[n] : n \in Nodes} \cup {"atomic"}

\* the end of lrng_drng_write_common: "Force reseed of secondary DRNG"
WriteForceReseed(t) ==
    /\ pc[t] = "wr_force"
    /\ sdrng' = IF loc[t].orig_ent = 0
                THEN [i \in DOMAIN sdrng |->
                         IF i \in ForceReseedTargets
                         THEN [sdrng[i] EXCEPT !.force_reseed = TRUE]
                         ELSE sdrng[i]]
                ELSE sdrng
    /\ Finish(t, loc[t], loc[t].retrieved)
    /\ UNCHANGED <<pdrngVars, lrng_sdrng, all_online_numa_node_seeded,
                   lrng_sdrng_reseed_max_time, switchVars, readyVars, envVars,
                   irq_info, lrng_pdrng_avail, work_pending, nops, nfaults>>

\* (count, entropy_bits) a hardware RNG driver hands over
HwgenRequests == {<<8, 100>>, <<64, 1000>>}

\* add_hwgenerator_randomness(buffer, count, entropy_bits): nothing while the
\* DRNG is not available; else, past the wait for lrng_need_entropy() (which
\* kthread_should_stop() or a signal ends as well), lrng_pdrng_inject
StartHwgenerator(t) ==
    /\ pc[t] = "idle" /\ nops < MaxOps
    /\ nops' = nops + 1
    /\ \E rq \in HwgenRequests :
         IF lrng_pdrng_avail = 0
         THEN Finish(t, NewOp("hwgen"), 0)
         ELSE /\ Goto(t, "inj_seed")
              /\ loc' = [loc EXCEPT ![t] =
                     [NewOp("hwgen") EXCEPT !.inbuflen = rq[1],
                                     !.entropy_bits = rq[2],
                                     !.rpc = <<"hw_ret">>]]
    /\ UNCHANGED <<pdrngVars, sdrngVars, switchVars, readyVars, envVars,
                   irq_info, lrng_pdrng_avail, work_pending, nfaults>>

\* add_hwgenerator_randomness returns
HwgeneratorRet(t) ==
    /\ pc[t] = "hw_ret"
    /\ Finish(t, loc[t], 0)
    /\ UNCHANGED <<pdrngVars, sdrngVars, switchVars, readyVars, envVars,
                   irq_info, lrng_pdrng_avail, work_pending, nops, nfaults>>


(************ lrng_set_drng_cb, lrng_drngs_switch, lrng_sdrng_switch ******)
\* the error an allocation callback reports with ERR_PTR
AllocError == -ENOMEM

\* lrng_drng_dealloc / lrng_hash_dealloc: statically allocated states (and
\* the NULL hash of the built-in backend) are not handed back
Dealloc(handle) ==
    IF handle \in {NULL_HASH, PRIMARY_CHACHA20, SECONDARY_CHACHA20}
    THEN freed
    ELSE freed \cup {handle}

\* a lrng_set_drng_cb that refuses nothing
SetDrngCbRefused_never(cb, current) == FALSE

\* the test of lrng_set_drng_cb that refuses callbacks cb while the primary
\* DRNG uses the callbacks current
SetDrngCbRefused(cb, current) == cb # CC20 /\ current # CC20

\* lrng_set_drng_cb(cb): NULL selects the default callbacks; under the mutex
\* lrng_crypto_cb_update a non-default set is refused while a non-default set
\* is active
lrng_set_drng_cb(t) ==
    /\ pc[t] = "idle" /\ nops < MaxOps
    /\ lrng_crypto_cb_update = NULL
    /\ nops' = nops + 1
    /\ \E arg \in Backends \cup {NULL} :
         LET cb == IF arg = NULL THEN CC20 ELSE arg
             l == [NewOp("set_drng_cb") EXCEPT !.cb = cb]
         IN IF SetDrngCbRefused(cb, pdrng.crypto_cb)
            THEN /\ Finish(t, l, -EINVAL)
                 /\ UNCHANGED lrng_crypto_cb_update
            ELSE /\ lrng_crypto_cb_update' = t
                 /\ Goto(t, "sw_alloc")
                 /\ loc' = [loc EXCEPT ![t] = l]
    /\ UNCHANGED <<pdrngVars, sdrngVars, lrng_hash, next_handle, freed,
                   alloc_cb, readyVars, envVars, irq_info, lrng_pdrng_avail,
                   work_pending, nfaults>>

\* lrng_drngs_switch: lrng_drng_alloc and lrng_hash_alloc of the new backend;
\* a failure of either ends lrng_set_drng_cb with the error
SwitchAlloc(t) ==
    /\ pc[t] = "sw_alloc"
    /\ \E ok \in BackendOutcomes :
         /\ Fault(ok)
         /\ IF ok
            THEN /\ loc' = [loc EXCEPT ![t].new_pdrng = next_handle,
                                       ![t].new_hash = next_handle + 1]
                 /\ next_handle' = next_handle + 2
                 /\ alloc_cb' = [h \in DOMAIN alloc_cb \cup
                                        {next_handle, next_handle + 1} |->
                                    IF h \in DOMAIN alloc_cb THEN alloc_cb[h]
                                    ELSE loc[t].cb]
                 /\ Goto(t, "sw_pdrng")
                 /\ UNCHANGED <<lrng_crypto_cb_update, freed>>
            ELSE /\ Finish(t, loc[t], AllocError)
                 /\ lrng_crypto_cb_update' = NULL
                 /\ UNCHANGED <<next_handle, freed, alloc_cb>>
    /\ UNCHANGED <<pdrngVars, sdrngVars, lrng_hash, readyVars, envVars,
                   irq_info, lrng_pdrng_avail, work_pending, nops>>

\* lrng_drngs_switch, "Update primary DRNG", under lrng_pdrng.lock: pull a seed
\* from the old DRNG and seed the new one (either may fail: lrng_pdrng_reset),
\* replace the hash, reset a DRNG that is not yet available, replace the DRNG
SwitchPdrng(t) ==
    /\ pc[t] = "sw_pdrng"
    /\ pdrng_lock = NULL
    /\ \E ok \in BackendOutcomes :
         LET p1 == IF ok THEN pdrng ELSE lrng_pdrng_reset(pdrng)
             p2 == IF lrng_pdrng_avail = 0 THEN lrng_pdrng_reset(p1) ELSE p1
         IN /\ Fault(ok)
            /\ pdrng' = [p2 EXCEPT !.pdrng = loc[t].new_pdrng,
                                   !.crypto_cb = loc[t].cb]
            /\ loc' = [loc EXCEPT ![t].ret = IF ok THEN 0 ELSE -EFAULT,
                                  ![t].node = 0]
    /\ lrng_hash' = loc[t].new_hash
    /\ freed' = Dealloc(lrng_hash) \cup Dealloc(pdrng.pdrng)
    /\ Goto(t, "sw_sdrng")
    /\ UNCHANGED <<pdrng_lock, sdrngVars, lrng_crypto_cb_update, next_handle,
                   alloc_cb, readyVars, envVars, irq_info, lrng_pdrng_avail,
                   work_pending, nops>>

\* the instances lrng_drngs_switch hands to lrng_sdrng_switch, in order
SwitchTargets ==
    IF lrng_sdrng = NoTable THEN <<"init">>
    ELSE [i \in 1..Cardinality(Nodes) |-> lrng_sdrng[i - 1]]

\* lrng_sdrng_switch(sdrng_store, cb, node) for the next instance, up to the
\* allocation of the new DRNG: a failed allocation leaves the instance alone
lrng_sdrng_switch(t) ==
    /\ pc[t] = "sw_sdrng"
    /\ IF loc[t].node >= Len(SwitchTargets)
       THEN /\ Goto(t, "sw_avail")
            /\ UNCHANGED <<next_handle, alloc_cb, loc, nfaults>>
       ELSE \E alloc_ok \in BackendOutcomes :
              /\ Fault(alloc_ok)
              /\ IF ~alloc_ok
                 THEN /\ loc' = [loc EXCEPT ![t].node = @ + 1]
                      /\ UNCHANGED <<pc, next_handle, alloc_cb>>
                 ELSE /\ loc' = [loc EXCEPT
                                    ![t].new_sdrng = next_handle,
                                    ![t].reset_sdrng = lrng_pdrng_avail = 0]
                      /\ next_handle' = next_handle + 1
                      /\ alloc_cb' = [h \in DOMAIN alloc_cb \cup {next_handle}
                                        |-> IF h \in DOMAIN alloc_cb
                                            THEN alloc_cb[h] ELSE loc[t].cb]
                      /\ Goto(t, "sw_pull")
    /\ UNCHANGED <<pdrngVars, sdrngVars, lrng_hash, lrng_crypto_cb_update,
                   freed, readyVars, envVars, irq_info, lrng_pdrng_avail,
                   work_pending, nops>>

\* lrng_sdrng_switch: under lrng_sdrng_lock the seed is pulled from the old
\* DRNG; after lrng_sdrng_unlock the new DRNG is seeded with it; a failure of
\* either sets reset_sdrng
SdrngSwitchPull(t) ==
    /\ pc[t] = "sw_pull"
    /\ LET i == SwitchTargets[loc[t].node + 1]
       IN /\ SdrngLockFree(sdrng[i])
          /\ sdrng' = [sdrng EXCEPT
                          ![i] = lrng_sdrng_unlock(SdrngLocked(sdrng[i], t))]
    /\ \E ok \in BackendOutcomes :
         /\ Fault(ok)
         /\ loc' = [loc EXCEPT ![t].reset_sdrng = @ \/ ~ok]
    /\ Goto(t, "sw_swap")
    /\ UNCHANGED <<pdrngVars, lrng_sdrng, all_online_numa_node_seeded,
                   lrng_sdrng_reseed_max_time, switchVars, readyVars, envVars,
                   irq_info, lrng_pdrng_avail, work_pending, nops>>

\* lrng_sdrng_switch: under the mutex of the instance, and under its spin lock
\* if lrng_sdrng_is_atomic, the instance is reset if reset_sdrng and the DRNG
\* and the callbacks are replaced; a spin lock that is locked is unlocked; the
\* old DRNG is deallocated unless it is the static secondary_chacha20
SdrngSwitchSwap(t) ==
    /\ pc[t] = "sw_swap"
    /\ LET i == SwitchTargets[loc[t].node + 1]
           s == sdrng[i]
           s1 == IF loc[t].reset_sdrng THEN lrng_sdrng_reset(s) ELSE s
       IN /\ s.lock = NULL
          /\ lrng_sdrng_is_atomic(s) => s.spin_lock = NULL
          /\ sdrng' = [sdrng EXCEPT ![i] =
                          [s1 EXCEPT !.sdrng = loc[t].new_sdrng,
                                     !.crypto_cb = loc[t].cb,
                                     !.spin_lock = NULL, !.lock = NULL]]
          /\ freed' = IF s.sdrng # SECONDARY_CHACHA20
                      THEN freed \cup {s.sdrng} ELSE freed
    /\ loc' = [loc EXCEPT ![t].node = @ + 1]
    /\ Goto(t, "sw_sdrng")
    /\ UNCHANGED <<pdrngVars, lrng_sdrng, all_online_numa_node_seeded,
                   lrng_sdrng_reseed_max_time, lrng_hash,
                   lrng_crypto_cb_update, next_handle, alloc_cb, readyVars,
                   envVars, irq_info, lrng_pdrng_avail, work_pending, nops,
                   nfaults>>

\* the end of lrng_drngs_switch: lrng_pdrng_avail is set; lrng_set_drng_cb
\* unlocks lrng_crypto_cb_update and returns 0
SwitchAvail(t) ==
    /\ pc[t] = "sw_avail"
    /\ lrng_pdrng_avail' = 1
    /\ lrng_crypto_cb_update' = NULL
    /\ Finish(t, loc[t], 0)
    /\ UNCHANGED <<pdrngVars, sdrngVars, lrng_hash, next_handle, freed,
                   alloc_cb, readyVars, envVars, irq_info, work_pending, nops,
                   nfaults>>

(************************** _lrng_drngs_numa_alloc ************************)
\* the instance kmalloc_node returns for a node
NodeInstance(node) == IF node = 1 THEN "node1" ELSE "node2"

\* the instances of the table sdrngs that _lrng_drngs_numa_alloc allocated
NumaAllocated(sdrngs) ==
    {sdrngs[k] : k \in DOMAIN sdrngs} \ {"init"}

\* _lrng_drngs_numa_alloc (the work item lrng_drngs_numa_alloc schedules):
\* mutex_lock(&lrng_crypto_cb_update) and the call of lrng_drngs_init_cc20
NumaAllocStart(t) ==
    /\ pc[t] = "idle" /\ nops < MaxOps
    /\ lrng_crypto_cb_update = NULL
    /\ lrng_crypto_cb_update' = t
    /\ nops' = nops + 1
    /\ loc' = [loc EXCEPT ![t] =
                  [NewOp("numa_alloc") EXCEPT !.rpc = <<"na_check">>]]
    /\ Goto(t, "init_check")
    /\ UNCHANGED <<pdrngVars, sdrngVars, lrng_hash, next_handle, freed,
                   alloc_cb, readyVars, envVars, irq_info, lrng_pdrng_avail,
                   work_pending, nfaults>>

\* "per-NUMA-node DRNGs are already present": unlock; else the kcalloc of the
\* table sdrngs
NumaAllocCheck(t) ==
    /\ pc[t] = "na_check"
    /\ IF lrng_sdrng # NoTable
       THEN /\ lrng_crypto_cb_update' = NULL
            /\ Finish(t, loc[t], 0)
       ELSE /\ loc' = [loc EXCEPT ![t].sdrngs = <<>>, ![t].node = 0]
            /\ Goto(t, "na_node")
            /\ UNCHANGED lrng_crypto_cb_update
    /\ UNCHANGED <<pdrngVars, sdrngVars, lrng_hash, next_handle, freed,
                   alloc_cb, readyVars, envVars, irq_info, lrng_pdrng_avail,
                   work_pending, nops, nfaults>>

\* one round of for_each_online_node: the first node gets lrng_sdrng_init;
\* for every other node an instance is allocated with the callbacks of
\* lrng_sdrng_init, its DRNG is allocated (a failure frees the instance and
\* leaves through "err") and lrng_sdrng_reset is applied
NumaAllocNode(t) ==
    /\ pc[t] = "na_node"
    /\ LET node == loc[t].node
           i == NodeInstance(node)
       IN IF node >= Cardinality(Nodes)
          THEN /\ Goto(t, "na_publish")
               /\ UNCHANGED <<sdrng, next_handle, alloc_cb, loc, nfaults>>
          ELSE IF node = 0
          THEN /\ loc' = [loc EXCEPT ![t].sdrngs = Append(@, "init"),
                                     ![t].node = node + 1]
               /\ UNCHANGED <<sdrng, next_handle, alloc_cb, pc, nfaults>>
          ELSE \E ok \in BackendOutcomes :
                 /\ Fault(ok)
                 /\ IF ok
                    THEN /\ sdrng' = [j \in DOMAIN sdrng \cup {i} |->
                               IF j = i
                               THEN lrng_sdrng_reset(
                                      [SdrngStatic EXCEPT
                                         !.sdrng = next_handle,
                                         !.crypto_cb =
                                             sdrng["init"].crypto_cb])
                               ELSE sdrng[j]]
                         /\ next_handle' = next_handle + 1
                         /\ alloc_cb' = [h \in DOMAIN alloc_cb \cup
                                               {next_handle} |->
                                IF h \in DOMAIN alloc_cb THEN alloc_cb[h]
                                ELSE sdrng["init"].crypto_cb]
                         /\ loc' = [loc EXCEPT ![t].sdrngs = Append(@, i),
                                               ![t].node = node + 1]
                         /\ UNCHANGED pc
                    ELSE /\ Goto(t, "na_err")
                         /\ UNCHANGED <<sdrng, next_handle, alloc_cb, loc>>
    /\ UNCHANGED <<pdrngVars, lrng_sdrng, all_online_numa_node_seeded,
                   lrng_sdrng_reseed_max_time, lrng_hash,
                   lrng_crypto_cb_update, freed, readyVars, envVars, irq_info,
                   lrng_pdrng_avail, work_pending, nops>>

\* cmpxchg(&lrng_sdrng, NULL, sdrngs): the table is published and the mutex
\* unlocked, or, where a table is present, the new one is released at "err"
NumaAllocPublish(t) ==
    /\ pc[t] = "na_publish"
    /\ IF lrng_sdrng = NoTable
       THEN /\ lrng_sdrng' = [n \in Nodes |-> loc[t].sdrngs[n + 1]]
            /\ lrng_crypto_cb_update' = NULL
            /\ Finish(t, loc[t], 0)
       ELSE /\ Goto(t, "na_err")
            /\ UNCHANGED <<lrng_sdrng, lrng_crypto_cb_update, loc>>
    /\ UNCHANGED <<pdrngVars, sdrng, all_online_numa_node_seeded,
                   lrng_sdrng_reseed_max_time, lrng_hash, next_handle, freed,
                   alloc_cb, readyVars, envVars, irq_info, lrng_pdrng_avail,
                   work_pending, nops, nfaults>>

\* a NumaAllocErr that releases nothing
NumaAllocErr_leaky(t) ==
    /\ pc[t] = "na_err"
    /\ lrng_crypto_cb_update' = NULL
    /\ Finish(t, loc[t], -ENOMEM)
    /\ UNCHANGED <<pdrngVars, sdrngVars, lrng_hash, next_handle, freed,
                   alloc_cb, readyVars, envVars, irq_info, lrng_pdrng_avail,
                   work_pending, nops, nfaults>>

\* "err": lrng_drng_dealloc and kfree of every instance of sdrngs other than
\* lrng_sdrng_init, kfree of the table, unlock
NumaAllocErr(t) ==
    /\ pc[t] = "na_err"
    /\ LET gone == NumaAllocated(loc[t].sdrngs)
       IN /\ freed' = freed \cup {sdrng[i].sdrng : i \in gone}
          /\ sdrng' = [j \in DOMAIN sdrng \ gone |-> sdrng[j]]
    /\ lrng_crypto_cb_update' = NULL
    /\ Finish(t, loc[t], -ENOMEM)
    /\ UNCHANGED <<pdrngVars, lrng_sdrng, all_online_numa_node_seeded,
                   lrng_sdrng_reseed_max_time, lrng_hash, next_handle,
                   alloc_cb, readyVars, envVars, irq_info, lrng_pdrng_avail,
                   work_pending, nops, nfaults>>

\* the steps of _lrng_drngs_numa_alloc
NumaSteps(t) ==
    \/ NumaAllocStart(t) \/ NumaAllocCheck(t) \/ NumaAllocNode(t)
    \/ NumaAllocPublish(t) \/ NumaAllocErr(t)

(****** add_random_ready_callback, del_random_ready_callback, wait ********)
\* add_random_ready_callback(rdy) for the callback of context t, which is not
\* queued: the unlocked test of pdrng_min_seeded and try_module_get
StartAddReady(t) ==
    /\ pc[t] = "idle" /\ nops < MaxOps
    /\ t \notin lrng_ready_list
    /\ nops' = nops + 1
    /\ \E alive \in BOOLEAN :
         LET l == NewOp("add_ready")
         IN IF pdrng.pdrng_min_seeded THEN Finish(t, l, -EALREADY)
            ELSE IF ~alive THEN Finish(t, l, -ENOENT)
            ELSE Goto(t, "rdy_add") /\ loc' = [loc EXCEPT ![t] = l]
    /\ UNCHANGED <<pdrngVars, sdrngVars, switchVars, readyVars, envVars,
                   irq_info, lrng_pdrng_avail, work_pending, nfaults>>

\* add_random_ready_callback under lrng_ready_list_lock: the second test of
\* pdrng_min_seeded and list_add
AddReadyLocked(t) ==
    /\ pc[t] = "rdy_add"
    /\ IF pdrng.pdrng_min_seeded
       THEN /\ Finish(t, loc[t], -EALREADY)
            /\ UNCHANGED readyVars
       ELSE /\ lrng_ready_list' = lrng_ready_list \cup {t}
            /\ fired' = [fired EXCEPT ![t] = 0]
            /\ Finish(t, loc[t], 0)
    /\ UNCHANGED <<pdrngVars, sdrngVars, switchVars, envVars, irq_info,
                   lrng_pdrng_avail, work_pending, nops, nfaults>>

\* del_random_ready_callback(rdy) for the callback of context t
del_random_ready_callback(t) ==
    /\ pc[t] = "idle" /\ nops < MaxOps
    /\ nops' = nops + 1
    /\ lrng_ready_list' = lrng_ready_list \ {t}
    /\ Finish(t, NewOp("del_ready"), 0)
    /\ UNCHANGED <<pdrngVars, sdrngVars, switchVars, fired, envVars,
                   irq_info, lrng_pdrng_avail, work_pending, nfaults>>

\* wait_for_random_bytes(): the test of pdrng_min_seeded before the wait
wait_for_random_bytes(t) ==
    /\ pc[t] = "idle" /\ nops < MaxOps
    /\ nops' = nops + 1
    /\ LET l == NewOp("wait_for_random_bytes")
       IN IF pdrng.pdrng_min_seeded THEN Finish(t, l, 0)
          ELSE Goto(t, "wfb_enq") /\ loc' = [loc EXCEPT ![t] = l]
    /\ UNCHANGED <<pdrngVars, sdrngVars, switchVars, readyVars, envVars,
                   irq_info, lrng_pdrng_avail, work_pending, nfaults>>

\* wait_event_interruptible: the context queues itself on lrng_pdrng_init_wait
\* and tests the condition (on entry, and again after each wake-up)
WaitTest(t) ==
    /\ pc[t] \in {"wfb_enq", "wfb_woken"}
    /\ IF pdrng.pdrng_min_seeded THEN Finish(t, loc[t], 0)
       ELSE Goto(t, "wfb_sleep") /\ UNCHANGED loc
    /\ UNCHANGED <<pdrngVars, sdrngVars, switchVars, readyVars, envVars,
                   irq_info, lrng_pdrng_avail, work_pending, nops, nfaults>>

\* wait_event_interruptible: a signal ends the sleep; the condition is tested
\* before the pending signal is looked at
WaitSignal(t) ==
    /\ pc[t] = "wfb_sleep"
    /\ Finish(t, loc[t], IF pdrng.pdrng_min_seeded THEN 0 ELSE -ERESTARTSYS)
    /\ UNCHANGED <<pdrngVars, sdrngVars, switchVars, readyVars, envVars,
                   irq_info, lrng_pdrng_avail, work_pending, nops, nfaults>>


(***************** add_interrupt_randomness, lrng_pool_mixin **************)
\* numbers of consecutive interrupt events that pass lrng_irq_stuck
IrqBursts == {40, 4200}

\* add_interrupt_randomness for a burst of n events, each followed by
\* lrng_pool_mixin: the first event at which num_events has reached
\* num_events_thresh takes reseed_in_progress and schedules lrng_seed_work.
\* The time stamps of a burst are not followed: the words of the pool and the
\* stuck test values are left as they are (no operation of the
\* specifications that use bursts depends on them).
IrqBurst(n) ==
    LET events == irq_info.num_events + n
        trigger == /\ ~all_online_numa_node_seeded
                   /\ lrng_pdrng_avail = 1
                   /\ ~u32_lt(events, irq_info.num_events_thresh)
                   /\ irq_info.reseed_in_progress = 0
    IN /\ irq_info' = [irq_info EXCEPT
                          !.num_events = events,
                          !.reseed_in_progress = IF trigger THEN 1 ELSE @]
       /\ work_pending' = IF trigger THEN TRUE ELSE work_pending

\* a burst of one of the sizes of IrqBursts
IrqBatch ==
    /\ nirq < MaxIrq
    /\ nirq' = nirq + 1
    /\ \E n \in IrqBursts : IrqBurst(n)
    /\ UNCHANGED <<pdrngVars, sdrngVars, switchVars, readyVars, archrandom,
                   jitterrng, jiffies, highres_timer, nticks, fips_enabled,
                   lrng_pool, irq, lrng_pdrng_avail, pc, loc, nops, nfaults>>

\* the statements that read jiffies: lrng_sdrng_reset, the reseed tests and
\* lrng_sdrng_inject
ReadsJiffies ==
    {"init_sdrng", "sw_swap", "sg_loop", "ss_ret", "ss_atomic"}

\* the jiffies clock advances, by the maximum reseed interval or by one jiffy
\* more, before a statement that reads it (elsewhere an advance changes
\* nothing that the same advance before the next read does not)
Tick ==
    /\ nticks < MaxTicks
    /\ \E t \in Contexts : pc[t] \in ReadsJiffies
    /\ nticks' = nticks + 1
    /\ \E d \in {0, 1} :
          jiffies' = jiffies + lrng_sdrng_reseed_max_time * HZ + d
    /\ UNCHANGED <<pdrngVars, sdrngVars, switchVars, readyVars, archrandom,
                   jitterrng, highres_timer, nirq, fips_enabled, lrng_pool,
                   irq, irq_info, lrng_pdrng_avail, work_pending, pc, loc,
                   nops, nfaults>>

(****************************** lrng_sdrng_seed ***************************)
\* lrng_sdrng_inject(sdrng, inbuf, inbuflen, internal = true)
lrng_sdrng_inject(s, ok) ==
    IF ok THEN [s EXCEPT !.last_seeded = jiffies,
                         !.requests = LRNG_DRNG_RESEED_THRESH]
    ELSE [s EXCEPT !.requests = 1]

\* the reseed test lrng_sdrng_seed applies to lrng_sdrng_atomic
AtomicNeedsReseed(a) ==
    \/ a.force_reseed
    \/ a.requests <= 0
    \/ time_after(jiffies, a.last_seeded + lrng_sdrng_reseed_max_time * HZ)

\* a call of lrng_sdrng_get(outbuf, outbuflen) that returns to ret_label
CallSdrngGet(l, outbuflen, ret_label) ==
    [l EXCEPT !.gf = <<[sinst |-> "init", outbuflen |-> outbuflen,
                        processed |-> 0]>> \o @,
              !.rpc = <<"sg_select", ret_label>> \o @]

\* a call of lrng_sdrng_seed(sdrng, seed_func) that returns to ret_label
CallSdrngSeed(l, inst, seed_func, ret_label) ==
    [l EXCEPT !.sinst = inst, !.seed_func = seed_func,
              !.rpc = <<ret_label>> \o @]

\* lrng_sdrng_seed: the call seed_func(seedbuf, 32, false,
\* !sdrng->fully_seeded)
SdrngSeedStart(t) ==
    /\ pc[t] = "ss_start"
    /\ loc' = [loc EXCEPT ![t].outbuflen = LRNG_DRNG_SECURITY_STRENGTH_BYTES,
                          ![t].fullentropy = FALSE,
                          ![t].drain = ~sdrng[loc[t].sinst].fully_seeded,
                          ![t].retrieved = 0,
                          ![t].rpc = <<"ss_ret">> \o @]
    /\ Goto(t, IF loc[t].seed_func = "cas" THEN "ps_cas" ELSE "sl_gen")
    /\ UNCHANGED <<pdrngVars, sdrngVars, switchVars, readyVars, envVars,
                   irq_info, lrng_pdrng_avail, work_pending, nops, nfaults>>


\* a lrng_sdrng_seed that sets fully_seeded after every pull that returned
\* data
SdrngSeedRet_any_bytes(t) ==
    /\ pc[t] = "ss_ret"
    /\ LET l == loc[t]
           i == l.sinst
       IN IF l.ret < 0
          THEN /\ sdrng' = IF l.ret # -EINPROGRESS
                           THEN [sdrng EXCEPT ![i].requests = 1]
                           ELSE sdrng
               /\ Return(t, l, l.ret)
               /\ UNCHANGED nfaults
          ELSE \E ok \in BackendOutcomes :
                 LET s1 == lrng_sdrng_unlock(
                              lrng_sdrng_inject(SdrngLocked(sdrng[i], t), ok))
                     s2 == [s1 EXCEPT
                              !.force_reseed = FALSE,
                              !.fully_seeded =
                                 IF l.ret > 0
                                 THEN TRUE ELSE @]
                 IN /\ SdrngLockFree(sdrng[i])
                    /\ Fault(ok)
                    /\ sdrng' = [sdrng EXCEPT ![i] = s2]
                    /\ IF /\ s2.sdrng # sdrng["atomic"].sdrng
                          /\ AtomicNeedsReseed(sdrng["atomic"])
                       THEN /\ loc' = [loc EXCEPT ![t] = CallSdrngGet(l,
                                         LRNG_DRNG_SECURITY_STRENGTH_BYTES,
                                         "ss_atomic")]
                            /\ Goto(t, "init_check")
                       ELSE Return(t, l, l.ret)
    /\ UNCHANGED <<pdrngVars, lrng_sdrng, all_online_numa_node_seeded,
                   lrng_sdrng_reseed_max_time, switchVars, readyVars, envVars,
                   irq_info, lrng_pdrng_avail, work_pending, nops>>

\* lrng_sdrng_seed after seed_func returned ret: an error leaves after
\* requests is set to 1 (not for -EINPROGRESS); else lrng_sdrng_inject,
\* force_reseed and fully_seeded are updated, and the atomic DRNG is reseeded
\* through lrng_sdrng_get when it is due
SdrngSeedRet(t) ==
    /\ pc[t] = "ss_ret"
    /\ LET l == loc[t]
           i == l.sinst
       IN IF l.ret < 0
          THEN /\ sdrng' = IF l.ret # -EINPROGRESS
                           THEN [sdrng EXCEPT ![i].requests = 1]
                           ELSE sdrng
               /\ Return(t, l, l.ret)
               /\ UNCHANGED nfaults
          ELSE \E ok \in BackendOutcomes :
                 LET s1 == lrng_sdrng_unlock(
                              lrng_sdrng_inject(SdrngLocked(sdrng[i], t), ok))
                     s2 == [s1 EXCEPT
                              !.force_reseed = FALSE,
                              !.fully_seeded =
                                 IF l.ret >= LRNG_DRNG_SECURITY_STRENGTH_BYTES
                                 THEN TRUE ELSE @]
                 IN /\ SdrngLockFree(sdrng[i])
                    /\ Fault(ok)
                    /\ sdrng' = [sdrng EXCEPT ![i] = s2]
                    /\ IF /\ s2.sdrng # sdrng["atomic"].sdrng
                          /\ AtomicNeedsReseed(sdrng["atomic"])
                       THEN /\ loc' = [loc EXCEPT ![t] = CallSdrngGet(l,
                                         LRNG_DRNG_SECURITY_STRENGTH_BYTES,
                                         "ss_atomic")]
                            /\ Goto(t, "init_check")
                       ELSE Return(t, l, l.ret)
    /\ UNCHANGED <<pdrngVars, lrng_sdrng, all_online_numa_node_seeded,
                   lrng_sdrng_reseed_max_time, switchVars, readyVars, envVars,
                   irq_info, lrng_pdrng_avail, work_pending, nops>>

\* lrng_sdrng_seed after lrng_sdrng_get returned the seed of the atomic DRNG
SdrngSeedAtomic(t) ==
    /\ pc[t] = "ss_atomic"
    /\ IF loc[t].ret < 0
       THEN UNCHANGED <<sdrng, nfaults>>
       ELSE \E ok \in BackendOutcomes :
              /\ SdrngLockFree(sdrng["atomic"])
              /\ Fault(ok)
              /\ sdrng' = [sdrng EXCEPT !["atomic"] =
                    [lrng_sdrng_unlock(
                        lrng_sdrng_inject(SdrngLocked(@, t), ok))
                     EXCEPT !.force_reseed = FALSE]]
    /\ Return(t, loc[t], loc[t].ret)
    /\ UNCHANGED <<pdrngVars, lrng_sdrng, all_online_numa_node_seeded,
                   lrng_sdrng_reseed_max_time, switchVars, readyVars, envVars,
                   irq_info, lrng_pdrng_avail, work_pending, nops>>


(******************************* lrng_sdrng_get ***************************)
\* lengths of a request to the secondary DRNG: one chunk, and two chunks
SdrngGetLens == {32, LRNG_DRNG_MAX_REQSIZE + 32}

\* the requests to the secondary DRNG: (outbuflen, in atomic context)
SdrngGetRequests == (SdrngGetLens \X {FALSE}) \cup {<<32, TRUE>>}

\* get_random_bytes / lrng_sdrng_read_common: lrng_sdrng_get(outbuf, outbuflen),
\* in process context or in atomic context, up to lrng_drngs_init_cc20
StartSdrngGet(t) ==
    /\ pc[t] = "idle" /\ nops < MaxOps
    /\ nops' = nops + 1
    /\ \E rq \in SdrngGetRequests :
          loc' = [loc EXCEPT ![t] =
                     CallSdrngGet([NewOp("sdrng_get") EXCEPT
                                                  !.atomic_ctx = rq[2],
                                                  !.req = rq[1]],
                                  rq[1], "sg_done")]
    /\ Goto(t, "init_check")
    /\ UNCHANGED <<pdrngVars, sdrngVars, switchVars, readyVars, envVars,
                   irq_info, lrng_pdrng_avail, work_pending, nfaults>>

\* lrng_sdrng_get: the choice of the instance
SdrngGetSelect(t) ==
    /\ pc[t] = "sg_select"
    /\ LET inst == IF loc[t].atomic_ctx THEN "atomic"
                   ELSE IF lrng_sdrng # NoTable
                           /\ sdrng[lrng_sdrng[loc[t].node]].fully_seeded
                        THEN lrng_sdrng[loc[t].node]
                        ELSE "init"
       IN loc' = [loc EXCEPT ![t].gf[1].sinst = inst]
    /\ Goto(t, "sg_loop")
    /\ UNCHANGED <<pdrngVars, sdrngVars, switchVars, readyVars, envVars,
                   irq_info, lrng_pdrng_avail, work_pending, nops, nfaults>>

\* a reseed test that fires as soon as the maximum reseed interval is reached
SdrngNeedsReseed_at_interval(s, requests) ==
    \/ requests = 0
    \/ s.force_reseed
    \/ jiffies >= s.last_seeded + lrng_sdrng_reseed_max_time * HZ

\* a reseed test that also fires while the counter is below zero
SdrngNeedsReseed_nonpositive(s, requests) ==
    \/ requests <= 0
    \/ s.force_reseed
    \/ time_after(jiffies, s.last_seeded + lrng_sdrng_reseed_max_time * HZ)

\* the reseed test of lrng_sdrng_get, evaluated after atomic_dec_and_test has
\* left the value requests in the counter of instance s
SdrngNeedsReseed(s, requests) ==
    \/ requests = 0
    \/ s.force_reseed
    \/ time_after(jiffies, s.last_seeded + lrng_sdrng_reseed_max_time * HZ)

\* lrng_sdrng_get, head of the loop: when nothing is left it returns
\* processed; else it decrements requests and calls lrng_sdrng_seed with
\* lrng_pdrng_seed if the reseed test holds for an instance other than
\* lrng_sdrng_atomic
SdrngGetLoop(t) ==
    /\ pc[t] = "sg_loop"
    /\ LET l == loc[t]
           f == Head(l.gf)
           i == f.sinst
           requests == sdrng[i].requests - 1
       IN IF f.outbuflen = 0
          THEN /\ Return(t, [l EXCEPT !.gf = Tail(@)], f.processed)
               /\ UNCHANGED sdrng
          ELSE /\ sdrng' = [sdrng EXCEPT ![i].requests = requests]
               /\ IF SdrngNeedsReseed(sdrng[i], requests) /\ i # "atomic"
                  THEN /\ loc' = [loc EXCEPT ![t] =
                                     CallSdrngSeed(l, i, "cas", "sg_gen")]
                       /\ Goto(t, "ss_start")
                  ELSE Goto(t, "sg_gen") /\ UNCHANGED loc
    /\ UNCHANGED <<pdrngVars, lrng_sdrng, all_online_numa_node_seeded,
                   lrng_sdrng_reseed_max_time, switchVars, readyVars, envVars,
                   irq_info, lrng_pdrng_avail, work_pending, nops, nfaults>>

\* lrng_sdrng_get, lrng_sdrng_lock: the test lrng_sdrng_is_atomic chooses the
\* spin lock or the mutex of the instance
SdrngGetLockKind(t) ==
    /\ pc[t] = "sg_gen"
    /\ loc' = [loc EXCEPT ![t].spin =
                  lrng_sdrng_is_atomic(sdrng[Head(loc[t].gf).sinst])]
    /\ Goto(t, "sg_lock")
    /\ UNCHANGED <<pdrngVars, sdrngVars, switchVars, readyVars, envVars,
                   irq_info, lrng_pdrng_avail, work_pending, nops, nfaults>>

\* lrng_sdrng_get: the chosen lock is taken, and lrng_drng_generate_helper of
\* the callbacks of the instance is called with the DRNG of the instance
SdrngGetLock(t) ==
    /\ pc[t] = "sg_lock"
    /\ LET i == Head(loc[t].gf).sinst
           s == sdrng[i]
       IN /\ IF loc[t].spin THEN s.spin_lock = NULL ELSE s.lock = NULL
          /\ sdrng' = [sdrng EXCEPT ![i] =
                          IF loc[t].spin THEN [s EXCEPT !.spin_lock = t]
                          ELSE [s EXCEPT !.lock = t]]
          /\ loc' = [loc EXCEPT ![t].used_cb = s.crypto_cb,
                                ![t].used_sdrng = s.sdrng]
    /\ Goto(t, "sg_run")
    /\ UNCHANGED <<pdrngVars, lrng_sdrng, all_online_numa_node_seeded,
                   lrng_sdrng_reseed_max_time, switchVars, readyVars, envVars,
                   irq_info, lrng_pdrng_avail, work_pending, nops, nfaults>>

\* lrng_sdrng_get: lrng_drng_generate_helper returns for one chunk and the
\* instance is unlocked; an error ends the call with -EFAULT
SdrngGetGenerate(t) ==
    /\ pc[t] = "sg_run"
    /\ sdrng' = [sdrng EXCEPT ![Head(loc[t].gf).sinst] = lrng_sdrng_unlock(@)]
    /\ \E ok \in BackendOutcomes :
         LET l == loc[t]
             todo == Min(Head(l.gf).outbuflen, LRNG_DRNG_MAX_REQSIZE)
         IN /\ Fault(ok)
            /\ IF ok
               THEN /\ loc' = [loc EXCEPT ![t].gf[1].outbuflen = @ - todo,
                                          ![t].gf[1].processed = @ + todo]
                    /\ Goto(t, "sg_loop")
               ELSE Return(t, [l EXCEPT !.gf = Tail(@)], -EFAULT)
    /\ UNCHANGED <<pdrngVars, lrng_sdrng, all_online_numa_node_seeded,
                   lrng_sdrng_reseed_max_time, switchVars, readyVars, envVars,
                   irq_info, lrng_pdrng_avail, work_pending, nops>>

\* the caller of lrng_sdrng_get has its result
SdrngGetDone(t) ==
    /\ pc[t] = "sg_done"
    /\ Finish(t, loc[t], loc[t].ret)
    /\ UNCHANGED <<pdrngVars, sdrngVars, switchVars, readyVars, envVars,
                   irq_info, lrng_pdrng_avail, work_pending, nops, nfaults>>

(**************************** lrng_sdrng_seed_work ************************)
\* the first per-node instance that is not fully seeded, or NULL
WorkTarget ==
    IF lrng_sdrng = NoTable
    THEN IF sdrng["init"].fully_seeded THEN NULL ELSE "init"
    ELSE LET todo == {n \in Nodes : ~sdrng[lrng_sdrng[n]].fully_seeded}
         IN IF todo = {} THEN NULL
            ELSE lrng_sdrng[CHOOSE n \in todo : \A m \in todo : n <= m]

\* the node of the instance WorkTarget
WorkNode ==
    IF lrng_sdrng = NoTable THEN 0
    ELSE LET todo == {n \in Nodes : ~sdrng[lrng_sdrng[n]].fully_seeded}
         IN IF todo = {} THEN 0 ELSE CHOOSE n \in todo : \A m \in todo : n <= m

\* lrng_sdrng_seed_work(): the worker takes the scheduled work item and picks
\* the instance to seed: _lrng_sdrng_seed_work calls lrng_sdrng_seed with
\* lrng_pdrng_seed_locked; with all per-node instances fully seeded it sets
\* all_online_numa_node_seeded
SeedWorkStart ==
    /\ pc[Worker] = "idle"
    /\ work_pending
    /\ work_pending' = FALSE
    /\ IF WorkTarget = NULL
       THEN /\ Goto(Worker, "wk_out")
            /\ loc' = [loc EXCEPT ![Worker] = [LocInit EXCEPT !.op = "work"]]
            /\ all_online_numa_node_seeded' =
                  IF lrng_sdrng # NoTable THEN TRUE
                  ELSE all_online_numa_node_seeded
       ELSE /\ Goto(Worker, "ss_start")
            /\ loc' = [loc EXCEPT ![Worker] =
                   CallSdrngSeed([LocInit EXCEPT !.op = "work",
                                                 !.work_sdrng = WorkTarget,
                                                 !.node = WorkNode],
                                 WorkTarget, "locked", "wk_after")]
            /\ UNCHANGED all_online_numa_node_seeded
    /\ UNCHANGED <<pdrngVars, sdrng, lrng_sdrng, lrng_sdrng_reseed_max_time,
                   switchVars, readyVars, envVars, irq_info, lrng_pdrng_avail,
                   nops, nfaults>>

\* _lrng_sdrng_seed_work after lrng_sdrng_seed: for a fully seeded instance
\* last_seeded is moved by node * 100 * HZ and lrng_sdrng_reseed_max_time
\* grows by 100
SeedWorkAfter ==
    /\ pc[Worker] = "wk_after"
    /\ LET i == loc[Worker].work_sdrng
       IN IF sdrng[i].fully_seeded
          THEN /\ sdrng' = [sdrng EXCEPT ![i].last_seeded =
                                  @ + loc[Worker].node * 100 * HZ]
               /\ lrng_sdrng_reseed_max_time' =
                      lrng_sdrng_reseed_max_time + 100
          ELSE UNCHANGED <<sdrng, lrng_sdrng_reseed_max_time>>
    /\ Goto(Worker, "wk_out")
    /\ UNCHANGED <<pdrngVars, lrng_sdrng, all_online_numa_node_seeded,
                   switchVars, readyVars, envVars, irq_info, lrng_pdrng_avail,
                   work_pending, loc, nops, nfaults>>

\* a lrng_sdrng_seed_work that returns without clearing reseed_in_progress
SeedWorkOut_keeps ==
    /\ pc[Worker] = "wk_out"
    /\ Finish(Worker, loc[Worker], 0)
    /\ UNCHANGED <<pdrngVars, sdrngVars, switchVars, readyVars, envVars,
                   irq_info, lrng_pdrng_avail, work_pending, nops, nfaults>>

\* lrng_sdrng_seed_work, "out": reseed_in_progress is cleared
SeedWorkOut ==
    /\ pc[Worker] = "wk_out"
    /\ irq_info' = [irq_info EXCEPT !.reseed_in_progress = 0]
    /\ Finish(Worker, loc[Worker], 0)
    /\ UNCHANGED <<pdrngVars, sdrngVars, switchVars, readyVars, envVars,
                   lrng_pdrng_avail, work_pending, nops, nfaults>>


(****************************** specifications ****************************)
\* the steps of lrng_drngs_init_cc20
InitSteps(t) == InitCheck(t) \/ InitSdrng(t) \/ InitPdrng(t)

\* the steps of lrng_pdrng_seed, lrng_pdrng_seed_locked and lrng_get_pool
SeedSteps(t) ==
    \/ PdrngSeed(t) \/ SeedLockedGenerate(t) \/ GetPoolXchg(t)
    \/ GetPoolHash(t) \/ SeedLockedNoise(t) \/ SeedLockedOut(t)

\* the steps of lrng_pdrng_inject
InjectSteps(t) ==
    \/ InjectSeed(t) \/ lrng_process_ready_list(t) \/ InjectWake(t)
    \/ InjectGenerate(t) \/ InjectReturn(t)

\* the steps of lrng_set_drng_cb
SwitchSteps(t) ==
    \/ lrng_set_drng_cb(t) \/ SwitchAlloc(t) \/ SwitchPdrng(t)
    \/ lrng_sdrng_switch(t) \/ SdrngSwitchPull(t) \/ SdrngSwitchSwap(t)
    \/ SwitchAvail(t)

\* the steps of lrng_sdrng_get and lrng_sdrng_seed
SdrngSteps(t) ==
    \/ SdrngGetSelect(t) \/ SdrngGetLoop(t) \/ SdrngGetLockKind(t)
    \/ SdrngGetLock(t) \/ SdrngGetGenerate(t)
    \/ SdrngGetDone(t) \/ SdrngSeedStart(t) \/ SdrngSeedRet(t)
    \/ SdrngSeedAtomic(t)

\* the steps of lrng_sdrng_seed_work
WorkSteps == SeedWorkStart \/ SeedWorkAfter \/ SeedWorkOut

Init ==
    /\ InitCommon
    /\ archrandom = ARCHRANDOM_BITS
    /\ jitterrng \in {0, JITTERRNG_BITS}
    /\ highres_timer = TRUE
    /\ fips_enabled = FALSE
    /\ nfaults = 0

\* Primary DRNG: one context reads /dev/random, writes and feeds hardware
\* entropy; another reads /dev/random and switches the backend
Next ==
    \/ StartPdrngGet("t1") \/ StartWrite("t1") \/ StartHwgenerator("t1")
    \/ StartPdrngGet("t2") \/ SwitchSteps("t2")
    \/ \E t \in Users :
         \/ PdrngGetRet(t) \/ WriteLoop(t) \/ WriteForceReseed(t)
         \/ HwgeneratorRet(t)
         \/ InitSteps(t) \/ SeedSteps(t) \/ InjectSteps(t)

Spec == Init /\ [][Next]_vars


(******************** properties of the primary DRNG **********************)
\* context t starts the top-level operation op in this step
Started(t, op) ==
    nops' = nops + 1 /\ loc'[t].opn = nops' /\ loc'[t].op = op

\* context t returns from the top-level operation op with the value v in this
\* step
Returns(t, op, v) ==
    /\ pc'[t] = "idle" /\ loc'[t].op = op /\ loc'[t].ret = v
    /\ pc[t] # "idle" \/ Started(t, op)

\* context t executes the statement at label
Leaves(t, label) == pc[t] = label /\ pc'[t] # label

\* context t calls lrng_pdrng_generate in this step: from
\* lrng_pdrng_seed_locked, or from lrng_pdrng_inject
GenerateCalled(t) ==
    \/ Leaves(t, "sl_gen") /\ pdrng.pdrng_entropy_bits \div 8 # 0
    \/ Leaves(t, "inj_gen") /\ loc[t].has_out /\ loc[t].outbuflen > 0

\* the bytes that call produced
GeneratedBytes(t) ==
    IF pc[t] = "sl_gen" THEN loc'[t].retrieved - loc[t].retrieved
    ELSE IF loc'[t].ret > 0 THEN loc'[t].ret ELSE 0

\* C2 (as amended): the seeding level of the primary DRNG decreases only in
\* lrng_pdrng_reset, which lrng_drngs_switch calls when the pull from the old
\* DRNG or the seeding of the new one fails or the DRNG is not yet available,
\* and which lrng_drngs_init_cc20 calls; inject, generate, reseed and a
\* successful switch never lower it
C2_LevelDropsOnlyInReset ==
    [][Level(pdrng') < Level(pdrng) =>
          \E t \in Contexts :
             \/ /\ Leaves(t, "sw_pdrng")
                /\ loc'[t].ret < 0 \/ lrng_pdrng_avail = 0
             \/ Leaves(t, "init_pdrng")]_vars

\* C2 as stated: the seeding level never decreases
C2_LevelNeverDrops == [][Level(pdrng') >= Level(pdrng)]_vars

\* a fully seeded DRNG was switched to the kernel crypto API backend and has
\* served a request down to an empty entropy budget, keeping its level
C2_Witness ==
    /\ Level(pdrng) = 2
    /\ pdrng.crypto_cb = KCAPI
    /\ pdrng.pdrng_entropy_bits < 8

\* C5: lrng_pdrng_generate with fullentropy set returns 0 and leaves
\* pdrng_entropy_bits unchanged whenever pdrng_fully_seeded is false, whether
\* called from lrng_pdrng_seed_locked or from lrng_pdrng_inject
C5_FullEntropyNeedsFullSeed ==
    [][\A t \in Contexts :
          (GenerateCalled(t) /\ loc[t].fullentropy
                             /\ ~pdrng.pdrng_fully_seeded)
          => /\ loc'[t].ret = 0
             /\ loc'[t].retrieved = loc[t].retrieved
             /\ pdrng'.pdrng_entropy_bits = pdrng.pdrng_entropy_bits]_vars

\* a /dev/random read injected entropy into a DRNG that is not fully seeded:
\* the entropy is in the budget, and the read got nothing
C5_Witness ==
    \E t \in Users :
       /\ pc[t] = "inj_post"
       /\ loc[t].fullentropy /\ loc[t].has_out /\ loc[t].ret = 0
       /\ ~pdrng.pdrng_fully_seeded
       /\ pdrng.pdrng_entropy_bits >= 8

\* C7: 0 <= pdrng_entropy_bits <= 256 always, and a successful
\* lrng_pdrng_inject raises pdrng_entropy_bits by min(entropy_bits,
\* 8 * inbuflen), saturating at 256; a failed one leaves it alone
C7_BudgetBoundedAndCredited ==
    /\ [](/\ pdrng.pdrng_entropy_bits >= 0
          /\ pdrng.pdrng_entropy_bits <= 256)
    /\ [][\A t \in Contexts :
            Leaves(t, "inj_seed")
            => pdrng'.pdrng_entropy_bits =
                 IF pc'[t] = "inj_post" THEN pdrng.pdrng_entropy_bits
                 ELSE Min(pdrng.pdrng_entropy_bits
                            + Min(loc[t].entropy_bits, 8 * loc[t].inbuflen),
                          256)]_vars

\* an inject that claimed more entropy than the budget has room for has
\* filled the budget to 256 bits
C7_Witness ==
    \E t \in Users :
       /\ pc[t] \in {"inj_ready", "inj_wake", "inj_gen"}
       /\ loc[t].entropy_bits > 256
       /\ pdrng.pdrng_entropy_bits = 256

\* C10: lrng_set_drng_cb returns -EINVAL and changes no DRNG handle, callback
\* set, hash, seeding flag or entropy budget when neither the requested nor
\* the active callback set is the default one; any other request goes on to
\* lrng_drngs_switch
C10_SwitchPolicy ==
    [][\A t \in Users :
          Started(t, "set_drng_cb")
          => IF loc'[t].cb # CC20 /\ pdrng.crypto_cb # CC20
             THEN /\ Returns(t, "set_drng_cb", -EINVAL)
                  /\ UNCHANGED <<pdrng, sdrng, lrng_sdrng, lrng_hash,
                                 lrng_pdrng_avail, next_handle, freed,
                                 lrng_crypto_cb_update>>
             ELSE pc'[t] = "sw_alloc"]_vars

\* a request for the kernel crypto API backend was refused while that
\* backend is active
C10_Witness ==
    \E t \in Users :
       /\ pc[t] = "idle"
       /\ loc[t].op = "set_drng_cb" /\ loc[t].ret = -EINVAL
       /\ loc[t].cb = KCAPI /\ pdrng.crypto_cb = KCAPI


(******************** properties of the secondary DRNG ********************)
\* the steps of lrng_sdrng_get and lrng_sdrng_seed while lrng_sdrng_init uses
\* the generator state of lrng_sdrng_atomic (no reseed of lrng_sdrng_atomic)
SdrngStepsDefault(t) ==
    \/ SdrngGetSelect(t) \/ SdrngGetLoop(t) \/ SdrngGetLockKind(t)
    \/ SdrngGetLock(t) \/ SdrngGetGenerate(t)
    \/ SdrngGetDone(t) \/ SdrngSeedStart(t) \/ SdrngSeedRet(t)

\* Secondary DRNG with the default backend: one context requests random data
\* and writes to the device file, and the clock advances
NextSdrng ==
    \/ \E t \in {"t1"} :
         \/ StartSdrngGet(t)
         \/ StartWrite(t) \/ WriteLoop(t) \/ WriteForceReseed(t)
         \/ InitSteps(t) \/ SeedSteps(t) \/ InjectSteps(t)
         \/ SdrngStepsDefault(t)
    \/ Tick

SpecSdrng == Init /\ [][NextSdrng]_vars

\* C6: a call of lrng_pdrng_generate produces at most outbuflen bytes; with
\* pdrng_min_seeded set it produces at most pdrng_entropy_bits / 8 bytes and
\* lowers pdrng_entropy_bits by 8 times the bytes produced; without it, it
\* produces at most 16 bytes and lowers pdrng_entropy_bits by 8 times the
\* bytes produced, but not below zero
C6_GenerateBoundedByBudget ==
    [][\A t \in Contexts :
          GenerateCalled(t)
          => LET n == GeneratedBytes(t)
                 bits == pdrng.pdrng_entropy_bits
             IN /\ n >= 0 /\ n <= loc[t].outbuflen
                /\ IF pdrng.pdrng_min_seeded
                   THEN /\ n <= bits \div 8
                        /\ pdrng'.pdrng_entropy_bits = bits - 8 * n
                   ELSE /\ n <= 16
                        /\ pdrng'.pdrng_entropy_bits =
                              IF bits > 8 * n THEN bits - 8 * n ELSE 0]_vars

\* the seed of a secondary DRNG: 16 bytes came out of a primary DRNG that is
\* not minimally seeded, and its smaller entropy budget is used up
C6_Witness ==
    \E t \in Users :
       /\ pc[t] = "inj_post"
       /\ loc[t].has_out /\ loc[t].ret = 16
       /\ ~pdrng.pdrng_min_seeded
       /\ pdrng.pdrng_entropy_bits = 0

\* the instance a chunk of lrng_sdrng_get is served by
ChunkInstance(t) == Head(loc[t].gf).sinst

\* context t is at the reseed test of lrng_sdrng_get for an instance other
\* than lrng_sdrng_atomic and takes it in this step
ChunkTested(t) ==
    /\ Leaves(t, "sg_loop")
    /\ Head(loc[t].gf).outbuflen > 0
    /\ ChunkInstance(t) # "atomic"

InitReseed ==
    /\ InitCommon
    /\ archrandom = ARCHRANDOM_BITS
    /\ jitterrng = JITTERRNG_BITS
    /\ highres_timer \in BOOLEAN
    /\ fips_enabled = FALSE
    /\ nfaults = MaxFaults

\* the steps of the worker: lrng_sdrng_seed_work and what it calls
WorkerSteps ==
    \/ WorkSteps
    \/ SdrngSeedStart(Worker) \/ SdrngSeedRet(Worker)
    \/ SeedSteps(Worker) \/ InjectSteps(Worker)

\* Reseeding: a context reads /dev/random while interrupts arrive and the
\* worker runs the scheduled reseeds
NextReseed ==
    \/ \E t \in {"t1"} :
         \/ StartPdrngGet(t) \/ PdrngGetRet(t)
         \/ InitSteps(t) \/ SeedSteps(t) \/ InjectSteps(t)
    \/ WorkerSteps
    \/ IrqBatch

SpecReseed == InitReseed /\ [][NextReseed]_vars

\* the context is inside lrng_pdrng_seed_locked: between the entry (after
\* the compare-and-swap, or from the work item) and the clearing of
\* reseed_in_progress at "out", its lrng_get_pool and lrng_pdrng_inject
\* calls included
InSeedLocked(t) ==
    \/ pc[t] \in {"sl_gen", "gp_xchg", "gp_hash", "sl_noise", "sl_after"}
    \/ \E i \in 1..Len(loc[t].rpc) : loc[t].rpc[i] = "sl_after"

\* C1: single-flight reseed - at any time at most one execution context is
\* inside lrng_pdrng_seed_locked (its lrng_get_pool call included), whether
\* it entered through the compare-and-swap of lrng_pdrng_seed or through the
\* scheduled work item.  lrng_sdrng_seed_work clears reseed_in_progress a
\* second time after lrng_pdrng_seed_locked has cleared it, which frees the
\* flag while a context that took it in between is still inside.
C1_SingleFlight ==
    Cardinality({t \in Contexts : InSeedLocked(t)}) <= 1

(******************************* entropy pool *****************************)
\* The entropy pool: a context requests random data from the secondary DRNG
\* while interrupts arrive and the clock advances (the scheduled work item
\* has not run yet)
NextPool ==
    \/ \E t \in {"t1"} :
         \/ StartSdrngGet(t)
         \/ InitSteps(t) \/ SeedSteps(t) \/ InjectSteps(t)
         \/ SdrngStepsDefault(t)
    \/ IrqBatch
    \/ Tick

SpecPool == InitReseed /\ [][NextPool]_vars

\* the step that completes a call of lrng_get_pool by context t
GetPoolReturns(t) == pc[t] = "gp_hash" /\ pc'[t] = "sl_noise"

\* C8: lrng_get_pool never returns more entropy bits than the estimate of the
\* pool at the time of the call (the event counter read by the first
\* atomic_xchg converted to bits, capped at the pool size) nor more than the
\* requested 256 bits, and the number of events it adds back to num_events
\* is neither negative (no unsigned wrap) nor more than the events it took.
C8_ExtractBounded ==
    [][\A t \in Contexts : GetPoolReturns(t) =>
          LET ieb == irq_info.irq_entropy_bits
              taken == loc[t].irq_num_events
              estimate == IF ieb = 0 THEN 0
                          ELSE Min((taken * LRNG_DRNG_SECURITY_STRENGTH_BITS)
                                      \div ieb, LRNG_POOL_SIZE_BITS)
          IN /\ loc'[t].total >= 0
             /\ loc'[t].total <= estimate
             /\ loc'[t].total <= LRNG_DRNG_SECURITY_STRENGTH_BITS
             /\ irq_info'.num_events >= 0
             /\ irq_info'.num_events <= taken + irq_info.num_events]_vars

\* a non-draining lrng_get_pool has returned the requested 256 bits and has
\* put unused events back
C8_Witness ==
    \E t \in Contexts : /\ pc[t] = "sl_noise" /\ ~loc[t].drain
                        /\ loc[t].total = LRNG_DRNG_SECURITY_STRENGTH_BITS
                        /\ irq_info.num_events > 0

(************************* readiness and waiting **************************)
\* the module parameter archrandom credits 128 or 256 bits per reseed
InitReady ==
    /\ InitCommon
    /\ archrandom \in {LRNG_MIN_SEED_ENTROPY_BITS,
                       LRNG_DRNG_SECURITY_STRENGTH_BITS}
    /\ jitterrng = JITTERRNG_BITS
    /\ highres_timer = TRUE
    /\ fips_enabled = FALSE
    /\ nfaults = 0

\* the steps of add_random_ready_callback, del_random_ready_callback and
\* wait_for_random_bytes
ReadySteps(t) ==
    \/ StartAddReady(t) \/ AddReadyLocked(t) \/ del_random_ready_callback(t)
    \/ wait_for_random_bytes(t) \/ WaitTest(t) \/ WaitSignal(t)

\* Readiness: the contexts register and unregister their callbacks and wait
\* for the seeding; one of them also reads /dev/random and switches the
\* backend
NextReady ==
    \/ \E t \in Users : ReadySteps(t)
    \/ \E t \in {"t2"} :
         \/ StartPdrngGet(t) \/ PdrngGetRet(t)
         \/ InitSteps(t) \/ SeedSteps(t) \/ InjectSteps(t)
         \/ SwitchSteps(t)

SpecReady == InitReady /\ [][NextReady]_vars

\* some context is inside lrng_pdrng_init_ops, before lrng_process_ready_list
ReadyListPending == \E t \in Contexts : pc[t] = "inj_ready"

\* some context is inside lrng_pdrng_init_ops, before wake_up_all
WakeUpPending == \E t \in Contexts : pc[t] \in {"inj_ready", "inj_wake"}

C4_WaitForRandomBytes ==
    /\ [](\A c \in Contexts :
            pc[c] = "wfb_sleep" /\ pdrng.pdrng_min_seeded => WakeUpPending)
    /\ [][\A c \in Users :
            /\ Started(c, "wait_for_random_bytes") =>
                  IF pdrng.pdrng_min_seeded
                  THEN Returns(c, "wait_for_random_bytes", 0)
                  ELSE pc'[c] = "wfb_enq"
            /\ Leaves(c, "inj_wake") =>
                  \A d \in Contexts : pc[d] = "wfb_sleep" => pc'[d] = "wfb_woken"
            /\ (pc[c] \in {"wfb_enq", "wfb_woken"} /\ pc'[c] # pc[c]) =>
                  IF pdrng.pdrng_min_seeded
                  THEN Returns(c, "wait_for_random_bytes", 0)
                  ELSE pc'[c] = "wfb_sleep"
            /\ Returns(c, "wait_for_random_bytes", 0) =>
                  pdrng.pdrng_min_seeded]_vars

\* C4 as stated: a caller that was woken returns 0
C4_WokenReturnsZero ==
    [][\A c \in Users :
          (pc[c] = "wfb_woken" /\ pc'[c] # pc[c]) =>
              Returns(c, "wait_for_random_bytes", 0)]_vars

\* a caller that blocked has been woken by the wake_up_all of a transition
C4_Witness ==
    \E c \in Users, t \in Users :
       /\ pc[c] = "wfb_woken" /\ pdrng.pdrng_min_seeded
       /\ pc[t] = "inj_gen"


(************************** backend switch and service ********************)
\* Backend switch: one context requests random data from the secondary DRNG,
\* another switches the backend back and forth
NextSwitch ==
    \/ \E t \in {"t1"} :
         \/ StartSdrngGet(t)
         \/ InitSteps(t) \/ SeedSteps(t) \/ InjectSteps(t)
         \/ SdrngSteps(t)
    \/ \E t \in {"t2"} : SwitchSteps(t)

\* the CPU random number generator is credited with the entropy of a minimal
\* seed (module parameter archrandom)
InitSwitch ==
    /\ InitCommon
    /\ archrandom = LRNG_MIN_SEED_ENTROPY_BITS
    /\ jitterrng = JITTERRNG_BITS
    /\ highres_timer = TRUE
    /\ fips_enabled = FALSE
    /\ nfaults = 0

SpecSwitch == InitSwitch /\ [][NextSwitch]_vars

\* context t is inside lrng_drng_generate_helper, called from lrng_sdrng_get
InGenerateHelper(t) == pc[t] = "sg_run"

\* C11: a generate call of lrng_sdrng_get always runs on a DRNG handle that
\* has not been deallocated, with the callbacks that allocated the handle, and
\* lrng_sdrng_get returns the requested number of bytes unless the generate
\* callback itself reported an error
C11_SwitchContinuity ==
    /\ [](\A t \in Contexts :
            InGenerateHelper(t)
            => /\ loc[t].used_sdrng \notin freed
               /\ alloc_cb[loc[t].used_sdrng] = loc[t].used_cb)
    /\ [][\A t \in Contexts :
            Leaves(t, "sg_done")
            => \/ loc[t].ret = loc[t].req
               \/ loc[t].ret = -EFAULT /\ nfaults > 0]_vars

\* context t replaces the primary DRNG in this step (lrng_drngs_switch,
\* "Update primary DRNG")
PdrngSwitched(t) == Leaves(t, "sw_pdrng")

\* the primary DRNG is as lrng_pdrng_reset leaves it
PdrngIsReset(p) ==
    /\ p.pdrng_entropy_bits = 0
    /\ ~p.pdrng_fully_seeded
    /\ ~p.pdrng_min_seeded

\* C12 (as amended): lrng_drngs_switch hands the old handle of the primary
\* DRNG to its deallocation callback in the critical section that installs the
\* new handle and the new callbacks, after the attempt to seed the new handle
\* from the old generator, whether that attempt succeeded or not; if the pull
\* or the seed failed the primary DRNG is fully reset, and if they succeeded
\* on an available DRNG its budget and seeding flags are kept; the primary
\* DRNG never refers to a deallocated handle
C12_DeallocAfterSeedAttempt ==
    /\ [](pdrng.pdrng \notin freed /\ alloc_cb[pdrng.pdrng] = pdrng.crypto_cb)
    /\ [][\A t \in Contexts :
            PdrngSwitched(t)
            => /\ pdrng'.pdrng = loc[t].new_pdrng
               /\ pdrng'.crypto_cb = loc[t].cb
               /\ freed' = Dealloc(lrng_hash) \cup Dealloc(pdrng.pdrng)
               /\ loc'[t].ret < 0 => PdrngIsReset(pdrng')
               /\ loc'[t].ret = 0 /\ lrng_pdrng_avail = 1
                  => /\ pdrng'.pdrng_entropy_bits = pdrng.pdrng_entropy_bits
                     /\ Level(pdrng') = Level(pdrng)]_vars

\* C12 as stated: the old handle is deallocated only when the new handle was
\* seeded from the old generator
C12_DeallocOnlyAfterSeeded ==
    [][\A t \in Contexts :
          PdrngSwitched(t) /\ pdrng.pdrng \in freed'
          => loc'[t].ret = 0]_vars

\* a switch whose pull or seed failed has reset a primary DRNG that came from
\* an earlier switch, and has deallocated the handle of that switch
C12_Witness ==
    \E t \in Contexts :
       /\ pc[t] = "sw_sdrng" /\ loc[t].node = 0
       /\ loc[t].ret < 0
       /\ PdrngIsReset(pdrng)
       /\ \E h \in freed : alloc_cb[h] = KCAPI /\ h < pdrng.pdrng

\* no lrng_set_drng_cb is between its mutex_lock and its mutex_unlock
NoSwitchInProgress == lrng_crypto_cb_update = NULL

\* the secondary DRNG instances lrng_drngs_switch replaces: the per-node
\* instances, or lrng_sdrng_init while there is no per-node table
SwitchedInstances == {SwitchTargets[n] : n \in 1..Len(SwitchTargets)}

\* C13: whenever no switch is in progress, the primary DRNG and every
\* secondary DRNG instance that lrng_drngs_switch replaces use the same
\* callback set
C13_AllOrNothing ==
    NoSwitchInProgress
    => \A i \in SwitchedInstances : sdrng[i].crypto_cb = pdrng.crypto_cb


(********************* the entropy pool: lrng_pool_lfsr_u32 ***************)
\* the 32-bit word of a number below 2^31: the positions of its one bits
Bits(n) == {i \in 0..30 : (n \div 2^i) % 2 = 1}

\* the 32-bit word with the 16-bit halves hi and lo
Word(hi, lo) == Bits(lo) \cup {i + 16 : i \in Bits(hi)}

\* a ^ b
Xor(a, b) == (a \ b) \cup (b \ a)

\* rol32(word, shift)
rol32(word, shift) == {(i + shift) % LRNG_POOL_WORD_BITS : i \in word}

\* word >> 3 and word & 7
Shr3(word) == {i - 3 : i \in {j \in word : j >= 3}}
Low3(word) ==
    (IF 0 \in word THEN 1 ELSE 0) + (IF 1 \in word THEN 2 ELSE 0)
        + (IF 2 \in word THEN 4 ELSE 0)

\* a twist table without its high bits: all entries zero
lrng_twist_none == [k \in 1..8 |-> {}]

\* 0x00000000, 0x3b6e20c8, 0x76dc4190, 0x4db26158,
\* 0xedb88320, 0xd6d6a3e8, 0x9b64c2b0, 0xa00ae278
lrng_twist_table ==
    <<Word(0, 0), Word(15214, 8392), Word(30428, 16784), Word(19890, 24920),
      Word(60856, 33568), Word(54998, 41960), Word(39780, 49840),
      Word(40970, 57976)>>

\* the taps of lrng_pool_lfsr_u32: the word at ptr itself, then ptr plus each
\* entry of lrng_lfsr_polynomial (128 words: 127, 28, 26, 1)
lrng_lfsr_polynomial == <<127, 28, 26, 1>>
LfsrTaps == <<0>> \o lrng_lfsr_polynomial

\* word = (word >> 3) ^ lrng_twist_table[word & 7]
Twist(word) == Xor(Shr3(word), lrng_twist_table[Low3(word) + 1])

\* lrng_pool_lfsr_u32(value) run on the pool p without interruption
RECURSIVE XorTaps(_, _, _, _)
XorTaps(p, ptr, word, k) ==
    IF k > Len(LfsrTaps) THEN word
    ELSE XorTaps(p, ptr,
                 Xor(word, p.pool[(ptr + LfsrTaps[k]) % LRNG_POOL_SIZE]),
                 k + 1)


\* a lrng_pool_lfsr_u32 whose pointer advances by 66
lrng_pool_lfsr_u32_even_stride(p, value) ==
    LET ptr == (p.pool_ptr + 66) % LRNG_POOL_SIZE
        rot == p.input_rotate + (IF ptr # 0 THEN 7 ELSE 14)
        word == XorTaps(p, ptr,
                        rol32(value, rot % LRNG_POOL_WORD_BITS), 1)
    IN [pool |-> [p.pool EXCEPT ![ptr] = Twist(word)],
        pool_ptr |-> p.pool_ptr + 66, input_rotate |-> rot]

lrng_pool_lfsr_u32(p, value) ==
    LET ptr == (p.pool_ptr + 67) % LRNG_POOL_SIZE
        rot == p.input_rotate + (IF ptr # 0 THEN 7 ELSE 14)
        word == XorTaps(p, ptr,
                        rol32(value, rot % LRNG_POOL_WORD_BITS), 1)
    IN [pool |-> [p.pool EXCEPT ![ptr] = Twist(word)],
        pool_ptr |-> p.pool_ptr + 67, input_rotate |-> rot]

(************************* add_interrupt_randomness ***********************)
\* the values that random_get_entropy() returns to the handler
TimeStamps == {0, 10, 20, 30, 40}

\* the words of the low-resolution path other than jiffies: the interrupt
\* line, its flags, the register word that reg_idx selects (any value), and
\* the two halves of the instruction pointer
IrqLine == Bits(9)
IrqFlags == Bits(0)
RegWords == {Bits(5)}
IpHigh == Word(65535, 65535)
IpLow == Word(33024, 4096)

\* panic() was called: the kernel has stopped
Panicked == \E c \in Cpus : irq[c].pc = "panic"

\* the handler on CPU c moves to the record r (of a kernel that runs)
IrqStep(c, r) == ~Panicked /\ irq' = [irq EXCEPT ![c] = r]

\* after a word is mixed: the next word of the event, or lrng_irq_stuck
AfterWord(r) ==
    IF r.todo = <<>>
    THEN [r EXCEPT !.pc = "stuck_time"]
    ELSE [r EXCEPT !.pc = "lfsr_ptr", !.value = Head(r.todo),
                   !.todo = Tail(r.todo)]

irqOnly == <<pdrngVars, sdrngVars, switchVars, readyVars, archrandom,
             jitterrng, jiffies, highres_timer, nticks, fips_enabled,
             lrng_pdrng_avail, pc, loc, nops, nfaults>>

\* add_interrupt_randomness(irq, irq_flags) with the time stamp now, up to
\* its first call of lrng_pool_lfsr_u32: now_time = random_get_entropy() (the
\* raw entropy test interface lrng_raw_entropy_store takes no event)
IrqEntry(c, now) ==
    IrqStep(c, [IrqIdle EXCEPT
                   !.pc = "lfsr_ptr", !.now_time = now, !.first = TRUE,
                   !.value = Bits(now), !.pool0 = lrng_pool,
                   !.last0 = <<irq_info.last_time, irq_info.last_delta,
                                irq_info.last_delta2>>,
                   !.events0 = irq_info.num_events])

\* an interrupt with one of the time stamps of TimeStamps
add_interrupt_randomness(c) ==
    /\ irq[c].pc = "idle"
    /\ nirq < MaxEvents
    /\ nirq' = nirq + 1
    /\ \E now \in TimeStamps : IrqEntry(c, now)
    /\ UNCHANGED <<irqOnly, lrng_pool, irq_info, work_pending>>

\* ptr = atomic_add_return(67, &lrng_pool.pool_ptr) & (LRNG_POOL_SIZE - 1)
LfsrPtr(c) ==
    /\ irq[c].pc = "lfsr_ptr"
    /\ lrng_pool' = [lrng_pool EXCEPT !.pool_ptr = @ + 67]
    /\ IrqStep(c, [irq[c] EXCEPT
                      !.pc = "lfsr_rot",
                      !.ptr = (lrng_pool.pool_ptr + 67) % LRNG_POOL_SIZE])
    /\ UNCHANGED <<irqOnly, nirq, irq_info, work_pending>>

\* input_rotate = atomic_add_return(ptr ? 7 : 14, &lrng_pool.input_rotate)
\* & 31; word = rol32(value, input_rotate)
LfsrRotate(c) ==
    /\ irq[c].pc = "lfsr_rot"
    /\ LET rot == lrng_pool.input_rotate + (IF irq[c].ptr # 0 THEN 7 ELSE 14)
       IN /\ lrng_pool' = [lrng_pool EXCEPT !.input_rotate = rot]
          /\ IrqStep(c, [irq[c] EXCEPT
                            !.pc = "lfsr_read",
                            !.input_rotate = rot % LRNG_POOL_WORD_BITS,
                            !.word = rol32(irq[c].value,
                                           rot % LRNG_POOL_WORD_BITS),
                            !.tap = 0])
    /\ UNCHANGED <<irqOnly, nirq, irq_info, work_pending>>

\* word ^= atomic_read_u32(&lrng_pool.pool[(ptr + tap) & 127]), one tap
LfsrRead(c) ==
    /\ irq[c].pc = "lfsr_read"
    /\ LET k == irq[c].tap + 1
           at == (irq[c].ptr + LfsrTaps[k]) % LRNG_POOL_SIZE
       IN IrqStep(c, [irq[c] EXCEPT
                         !.word = Xor(@, lrng_pool.pool[at]),
                         !.tap = k,
                         !.pc = IF k = Len(LfsrTaps)
                                THEN "lfsr_write" ELSE "lfsr_read"])
    /\ UNCHANGED <<irqOnly, nirq, lrng_pool, irq_info, work_pending>>

\* the twist and atomic_set(&lrng_pool.pool[ptr], word); back in the
\* handler, after the time stamp, the test of irq_highres_timer
LfsrWrite(c) ==
    /\ irq[c].pc = "lfsr_write"
    /\ lrng_pool' = [lrng_pool EXCEPT
                        !.pool[irq[c].ptr] = Twist(irq[c].word)]
    /\ IrqStep(c, IF irq[c].first
                  THEN [irq[c] EXCEPT !.pc = "irq_timer"]
                  ELSE AfterWord(irq[c]))
    /\ UNCHANGED <<irqOnly, nirq, irq_info, work_pending>>

\* if (!irq_info->irq_highres_timer): jiffies, irq, irq_flags, a register
\* word where get_irq_regs() is not NULL, and the instruction pointer are
\* mixed as well
IrqTimer(c) ==
    /\ irq[c].pc = "irq_timer"
    /\ IF irq_info.irq_highres_timer
       THEN IrqStep(c, AfterWord([irq[c] EXCEPT !.first = FALSE]))
       ELSE \E regs \in {<<>>} \cup {<<w>> : w \in RegWords} :
              IrqStep(c, AfterWord([irq[c] EXCEPT
                     !.first = FALSE,
                     !.todo = <<Bits(jiffies), IrqLine, IrqFlags>> \o regs
                                 \o <<IpHigh, IpLow>>]))
    /\ UNCHANGED <<irqOnly, nirq, lrng_pool, irq_info, work_pending>>

(****************************** lrng_irq_stuck ****************************)
\* The time stamps of the model are small, so the differences below are the
\* exact ones; the code takes them modulo 2^32, which changes none of its
\* tests for zero.

\* delta = now_time - atomic_xchg_u32(&irq_info->last_time, now_time)
StuckTime(c) ==
    /\ irq[c].pc = "stuck_time"
    /\ irq_info' = [irq_info EXCEPT !.last_time = irq[c].now_time]
    /\ IrqStep(c, [irq[c] EXCEPT
                      !.pc = "stuck_delta",
                      !.delta = irq[c].now_time - irq_info.last_time])
    /\ UNCHANGED <<irqOnly, nirq, lrng_pool, work_pending>>

\* delta2 = delta - atomic_xchg_u32(&irq_info->last_delta, delta)
StuckDelta(c) ==
    /\ irq[c].pc = "stuck_delta"
    /\ irq_info' = [irq_info EXCEPT !.last_delta = irq[c].delta]
    /\ IrqStep(c, [irq[c] EXCEPT
                      !.pc = "stuck_delta2",
                      !.delta2 = irq[c].delta - irq_info.last_delta])
    /\ UNCHANGED <<irqOnly, nirq, lrng_pool, work_pending>>

\* delta3 = delta2 - atomic_xchg(&irq_info->last_delta2, delta2)
StuckDelta2(c) ==
    /\ irq[c].pc = "stuck_delta2"
    /\ irq_info' = [irq_info EXCEPT !.last_delta2 = irq[c].delta2]
    /\ IrqStep(c, [irq[c] EXCEPT
                      !.pc = "stuck_test",
                      !.delta3 = irq[c].delta2 - irq_info.last_delta2])
    /\ UNCHANGED <<irqOnly, nirq, lrng_pool, work_pending>>

\* a stuck test that looks at the first derivative only
IsStuckFirst(r) == r.delta = 0

\* the return value of lrng_irq_stuck for the derivatives of the record r
IsStuck(r) == r.delta = 0 \/ r.delta2 = 0 \/ r.delta3 = 0

\* a continuous test that fails on every stuck event
CrngtFailsStuck(r) == IsStuck(r)

\* the FIPS 140-2 continuous test fails on an event: if (!delta)
CrngtFails(r) == r.delta = 0

\* the rest of lrng_irq_stuck: not stuck where the stuck test is disabled;
\* in FIPS mode an event with delta = 0 decrements crngt_ctr and panics when
\* it reaches zero, any other event sets it to LRNG_FIPS_CRNGT; then the
\* return value. A stuck event ends the handler.
StuckTest(c) ==
    /\ irq[c].pc = "stuck_test"
    /\ LET r == irq[c]
           crngt == irq_info.stuck_test /\ fips_enabled
           ctr == IF ~crngt THEN irq_info.crngt_ctr
                  ELSE IF CrngtFails(r) THEN irq_info.crngt_ctr - 1
                  ELSE LRNG_FIPS_CRNGT
       IN /\ irq_info' = [irq_info EXCEPT !.crngt_ctr = ctr]
          /\ IrqStep(c, IF crngt /\ CrngtFails(r) /\ ctr = 0
                        THEN [r EXCEPT !.pc = "panic"]
                        ELSE IF irq_info.stuck_test /\ IsStuck(r)
                        THEN IrqIdle
                        ELSE [r EXCEPT !.pc = "irq_count"])
    /\ UNCHANGED <<irqOnly, nirq, lrng_pool, work_pending>>

\* atomic_add_return(1, &irq_info->num_events) of an event that is not stuck
IrqCount(c) ==
    /\ irq[c].pc = "irq_count"
    /\ irq_info' = [irq_info EXCEPT !.num_events = @ + 1]
    /\ IrqStep(c, [irq[c] EXCEPT !.pc = "irq_mixin"])
    /\ UNCHANGED <<irqOnly, nirq, lrng_pool, work_pending>>

\* a lrng_pool_mixin that schedules lrng_seed_work although a reseed is in
\* progress
lrng_pool_mixin_unguarded(c) ==
    /\ irq[c].pc = "irq_mixin"
    /\ LET trigger == /\ ~all_online_numa_node_seeded
                      /\ lrng_pdrng_avail = 1
                      /\ ~u32_lt(irq_info.num_events,
                                 irq_info.num_events_thresh)
       IN /\ irq_info' = [irq_info EXCEPT
                             !.reseed_in_progress = IF trigger THEN 1 ELSE @]
          /\ work_pending' = IF trigger THEN TRUE ELSE work_pending
    /\ IrqStep(c, IrqIdle)
    /\ UNCHANGED <<irqOnly, nirq, lrng_pool>>

\* lrng_pool_mixin: with all tests passed, the handler that takes
\* reseed_in_progress schedules lrng_seed_work
lrng_pool_mixin(c) ==
    /\ irq[c].pc = "irq_mixin"
    /\ LET trigger == /\ ~all_online_numa_node_seeded
                      /\ lrng_pdrng_avail = 1
                      /\ ~u32_lt(irq_info.num_events,
                                 irq_info.num_events_thresh)
                      /\ irq_info.reseed_in_progress = 0
       IN /\ irq_info' = [irq_info EXCEPT
                             !.reseed_in_progress = IF trigger THEN 1 ELSE @]
          /\ work_pending' = IF trigger THEN TRUE ELSE work_pending
    /\ IrqStep(c, IrqIdle)
    /\ UNCHANGED <<irqOnly, nirq, lrng_pool>>

\* the steps of add_interrupt_randomness on CPU c after its entry
IrqBody(c) ==
    \/ LfsrPtr(c)
    \/ LfsrRotate(c)
    \/ LfsrRead(c)
    \/ LfsrWrite(c)
    \/ IrqTimer(c)
    \/ StuckTime(c)
    \/ StuckDelta(c)
    \/ StuckDelta2(c)
    \/ StuckTest(c)
    \/ IrqCount(c)
    \/ lrng_pool_mixin(c)

\* the steps of add_interrupt_randomness on CPU c
IrqSteps(c) == add_interrupt_randomness(c) \/ IrqBody(c)

(************************ the interrupt handler alone *********************)
\* Interrupts arrive before or after lrng_drngs_init_cc20 has run (with or
\* without a high-resolution time stamp, in FIPS mode or not)
InitIrq ==
    /\ InitStatic
    /\ lrng_pool = PoolInit
    /\ nirq = 0
    /\ fips_enabled \in BOOLEAN
    /\ archrandom = 0 /\ jitterrng = 0
    /\ nfaults = 0
    /\ \E initialized \in BOOLEAN :
         IF initialized
         THEN /\ highres_timer \in BOOLEAN
              /\ sdrng = [i \in {"init", "atomic"}
                            |-> lrng_sdrng_reset(SdrngStatic)]
              /\ irq_info = TimerDetect(IrqInfoInit)
              /\ lrng_pdrng_avail = 1
         ELSE /\ highres_timer = TRUE
              /\ sdrng = [i \in {"init", "atomic"} |-> SdrngStatic]
              /\ irq_info = IrqInfoInit
              /\ lrng_pdrng_avail = 0

\* one CPU takes the interrupts, one event after the other, until a panic
NextIrq == IrqSteps("cpu0")

SpecIrq == InitIrq /\ [][NextIrq]_vars

\* the three derivatives of the event of record r, from the values that
\* irq_info held when the handler was entered
D1(r) == r.now_time - r.last0[1]
D2(r) == D1(r) - r.last0[2]
D3(r) == D2(r) - r.last0[3]

\* lrng_irq_stuck returns on CPU c; with 1 (or never, in a panic): the event
\* is rejected
StuckReturns(c) == irq[c].pc = "stuck_test" /\ irq'[c].pc # "stuck_test"
EventRejected(c) == StuckReturns(c) /\ irq'[c].pc # "irq_count"

\* what holds of every event: irq_info holds the time stamp and the first
\* two derivatives of the event, and with the stuck test enabled the event
\* is rejected exactly when one of its three derivatives is zero
StuckTestRule(c) ==
    /\ <<irq_info.last_time, irq_info.last_delta, irq_info.last_delta2>>
          = <<irq[c].now_time, D1(irq[c]), D2(irq[c])>>
    /\ irq_info.stuck_test
          => (EventRejected(c)
                <=> D1(irq[c]) = 0 \/ D2(irq[c]) = 0 \/ D3(irq[c]) = 0)

PanicsNow(c) == StuckReturns(c) /\ irq'[c].pc = "panic"

\* the continuous test is in force: FIPS mode and the stuck test enabled
CrngtOn == fips_enabled /\ irq_info.stuck_test

MixWords ==
    {{}} \cup {{i} : i \in 0..(LRNG_POOL_WORD_BITS - 1)}
         \cup {Bits(3), Bits(7), Bits(4660), Word(65535, 65535)}

IsZeroPool(p) == \A i \in 0..(LRNG_POOL_SIZE - 1) : p.pool[i] = {}

\* the all-zero pool after k words (all of them zero) were mixed: the pointer
\* has advanced by 67 and the rotation by 7 per word, and by 14 for the word
\* that went to pool[0]
ZeroPoolAfter(k) ==
    [pool |-> PoolInit.pool, pool_ptr |-> 67 * k,
     input_rotate |-> 7 * k + (IF k >= LRNG_POOL_SIZE THEN 7 ELSE 0)]

InitLfsr ==
    /\ InitStatic
    /\ sdrng = [i \in {"init", "atomic"} |-> SdrngStatic]
    /\ irq_info = IrqInfoInit
    /\ lrng_pdrng_avail = 0
    /\ highres_timer = TRUE /\ fips_enabled = FALSE
    /\ archrandom = 0 /\ jitterrng = 0 /\ nfaults = 0
    /\ nirq = 0
    /\ \E k \in 0..LRNG_POOL_SIZE : lrng_pool = ZeroPoolAfter(k)

\* one call lrng_pool_lfsr_u32(value) on CPU c that no other call
\* interleaves with; value and the pool that the call met are kept
MixWord(c) ==
    /\ irq[c].pc = "idle"
    /\ nirq < MaxMix
    /\ nirq' = nirq + 1
    /\ \E value \in MixWords :
         /\ lrng_pool' = lrng_pool_lfsr_u32(lrng_pool, value)
         /\ IrqStep(c, [IrqIdle EXCEPT !.value = value, !.pool0 = lrng_pool])
    /\ UNCHANGED <<irqOnly, irq_info, work_pending>>

NextLfsr == MixWord("cpu0")

SpecLfsr == InitLfsr /\ [][NextLfsr]_vars

\* C17: lrng_pool_lfsr_u32 with a non-zero value leaves an all-zero pool
\* non-zero, whatever the pointer and the rotation are: the twist maps
\* non-zero words to non-zero words, because word >> 3 has no bit above bit
\* 28 and every entry of the twist table for non-zero low bits has one
C17_NotAbsorbing ==
    /\ [](\A k \in 1..7 : \E i \in lrng_twist_table[k + 1] : i > 28)
    /\ [](\A w \in MixWords : w # {} => Twist(w) # {})
    /\ [][\A c \in Cpus :
            /\ irq'[c] # irq[c]
            /\ IsZeroPool(lrng_pool)
            /\ irq'[c].value # {}
            => ~IsZeroPool(lrng_pool')]_vars

\* a non-zero word was mixed into the all-zero pool whose next word is
\* pool[0]; then a second word was mixed, and the pool is not zero
C17_Witness ==
    /\ nirq = 2
    /\ lrng_pool.pool_ptr = 67 * (LRNG_POOL_SIZE + 1)
    /\ IsZeroPool(irq["cpu0"].pool0) = FALSE
    /\ irq["cpu0"].value # {}
    /\ lrng_pool.pool[0] # {}
    /\ ~IsZeroPool(lrng_pool)

(********************* interrupts on two CPUs at a time *******************)
\* after lrng_drngs_init_cc20, with a high-resolution time stamp, and after
\* two events with the time stamps 10 and 40 (both accepted); the events that
\* follow arrive on two CPUs
InitMix ==
    /\ InitStatic
    /\ highres_timer = TRUE /\ fips_enabled = FALSE
    /\ archrandom = 0 /\ jitterrng = 0 /\ nfaults = 0
    /\ sdrng = [i \in {"init", "atomic"} |-> lrng_sdrng_reset(SdrngStatic)]
    /\ lrng_pdrng_avail = 1
    /\ nirq = 2
    /\ lrng_pool = lrng_pool_lfsr_u32(lrng_pool_lfsr_u32(PoolInit, Bits(10)),
                                      Bits(40))
    /\ irq_info = [TimerDetect(IrqInfoInit) EXCEPT
                       !.last_time = 40, !.last_delta = 30,
                       !.last_delta2 = 20, !.num_events = 2]

NextMix == \E c \in Cpus : IrqSteps(c)

SpecMix == InitMix /\ [][NextMix]_vars

\* the CPUs c and d have both mixed the time stamp of their event, in calls
\* of lrng_pool_lfsr_u32 that started from the same pool
MixedTogether(c, d) ==
    /\ irq[c].pc = "irq_timer" /\ irq[d].pc = "irq_timer"
    /\ irq[c].pool0 = irq[d].pool0

\* C18: after two concurrent calls of lrng_pool_lfsr_u32 the pool (words,
\* pointer and rotation) is the one that the two calls make in one of the
\* two sequential orders, and the calls have used different pool words
C18_SomeSequentialOrder ==
    \A c, d \in Cpus :
       c # d /\ MixedTogether(c, d)
       => /\ irq[c].ptr # irq[d].ptr
          /\ LET p == irq[c].pool0
                 a == irq[c].value
                 b == irq[d].value
             IN lrng_pool \in
                  {lrng_pool_lfsr_u32(lrng_pool_lfsr_u32(p, a), b),
                   lrng_pool_lfsr_u32(lrng_pool_lfsr_u32(p, b), a)}

(************** seeding from interrupts only, after initialization *********)
\* after lrng_drngs_init_cc20, with a high-resolution time stamp; the CPU
\* random number generator and the Jitter RNG are credited with no entropy
\* and no backend call fails
InitSeed ==
    /\ InitStatic
    /\ lrng_pool = PoolInit
    /\ highres_timer = TRUE /\ fips_enabled = FALSE
    /\ archrandom = 0 /\ jitterrng = 0 /\ nfaults = MaxFaults
    /\ sdrng = [i \in {"init", "atomic"} |-> lrng_sdrng_reset(SdrngStatic)]
    /\ irq_info = TimerDetect(IrqInfoInit)
    /\ lrng_pdrng_avail = 1
    /\ nirq = 0

\* EventBurst events that pass the stuck test, up to SeedEvents events
IrqEvents ==
    /\ nirq < SeedEvents
    /\ nirq' = nirq + EventBurst
    /\ IrqBurst(EventBurst)
    /\ UNCHANGED <<pdrngVars, sdrngVars, switchVars, readyVars, archrandom,
                   jitterrng, jiffies, highres_timer, nticks, fips_enabled,
                   lrng_pool, irq, lrng_pdrng_avail, pc, loc, nops, nfaults>>

\* after the last event: lrng_pdrng_get of LRNG_DRNG_SECURITY_STRENGTH_BYTES
\* bytes
StartSeededGet(t) ==
    /\ nirq = SeedEvents
    /\ PdrngGetCall(t, LRNG_DRNG_SECURITY_STRENGTH_BYTES)
    /\ UNCHANGED <<pdrngVars, sdrngVars, switchVars, readyVars, envVars,
                   irq_info, lrng_pdrng_avail, work_pending, nfaults>>

NextSeed ==
    \/ IrqEvents
    \/ WorkerSteps
    \/ \E t \in {"t1"} :
         \/ StartSeededGet(t) \/ PdrngGetRet(t) \/ InitCheck(t)
         \/ SeedSteps(t) \/ InjectSteps(t)

SpecSeed == InitSeed /\ [][NextSeed]_vars

\* all SeedEvents events are delivered, the scheduled work is done and no
\* request was made yet
SeedQuiet ==
    /\ nirq = SeedEvents
    /\ pc[Worker] = "idle" /\ ~work_pending
    /\ nops = 0

\* context t returns from lrng_pdrng_get in this step
SeededGetReturns(t) == Returns(t, "pdrng_get", loc'[t].ret)

\* C16 (as the code has it): the first reseed work is scheduled by the 32nd
\* event and hands what the primary DRNG received on to the secondary DRNG,
\* so after 256 events and the scheduled work the budget of the primary DRNG
\* is zero and fewer than 256 events are left in the pool; the primary DRNG
\* is fully seeded only where all it received came in one reseed (then the
\* secondary DRNG is fully seeded, too), and otherwise not; a following
\* full-entropy request for 32 bytes returns no bytes (its caller has to
\* wait for more events)
C16_SeedGoesToSecondary ==
    /\ [](SeedQuiet
            => /\ pdrng.pdrng_entropy_bits = 0
               /\ irq_info.num_events < SeedEvents
               /\ Level(pdrng) = 2 <=> sdrng["init"].fully_seeded)
    /\ [][\A t \in Users : SeededGetReturns(t) => loc'[t].ret = 0]_vars

\* the work ran once, after the last event: the primary DRNG is fully seeded
\* and has handed 32 bytes to the secondary DRNG; the request that followed
\* has returned 0
C16_Witness ==
    /\ nirq = SeedEvents
    /\ pc["t1"] = "idle" /\ loc["t1"].op = "pdrng_get" /\ loc["t1"].opn = 1
    /\ loc["t1"].ret = 0
    /\ Level(pdrng) = 2
    /\ sdrng["init"].fully_seeded
    /\ pdrng.pdrng_entropy_bits = 0

\* C16 (as stated): after 256 events the primary DRNG is fully seeded and
\* the first full-entropy request for 32 bytes returns 32 bytes, whatever
\* the interleaving of the reseed work with the events was
C16_FullySeededAfter256 ==
    /\ [](SeedQuiet => Level(pdrng) = 2)
    /\ [][\A t \in Users :
            SeededGetReturns(t) /\ loc'[t].opn = 1
            => loc'[t].ret = LRNG_DRNG_SECURITY_STRENGTH_BYTES]_vars

(**************************** locks and contexts **************************)
\* context t acquires the mutex lrng_pdrng.lock in this step: in
\* lrng_drngs_init_cc20, lrng_pdrng_seed_locked (for lrng_pdrng_generate),
\* lrng_pdrng_inject or lrng_drngs_switch
TakesPdrngMutex(t) ==
    \/ Leaves(t, "init_pdrng")
    \/ Leaves(t, "sl_gen") /\ pdrng.pdrng_entropy_bits \div 8 # 0
    \/ Leaves(t, "inj_seed")
    \/ Leaves(t, "sw_pdrng")

\* context t acquires the mutex of a secondary DRNG instance in this step:
\* lrng_sdrng_lock on an instance for which lrng_sdrng_is_atomic is false (in
\* lrng_drngs_init_cc20, lrng_sdrng_get, lrng_sdrng_seed, lrng_sdrng_switch),
\* or the mutex_lock of lrng_sdrng_switch
TakesSdrngMutex(t) ==
    \/ Leaves(t, "init_sdrng") /\ ~lrng_sdrng_is_atomic(sdrng["init"])
    \/ Leaves(t, "sg_lock") /\ ~loc[t].spin
    \/ /\ Leaves(t, "ss_ret")
       /\ loc[t].ret >= 0
       /\ ~lrng_sdrng_is_atomic(sdrng[loc[t].sinst])
    \/ /\ Leaves(t, "sw_pull")
       /\ ~lrng_sdrng_is_atomic(sdrng[SwitchTargets[loc[t].node + 1]])
    \/ Leaves(t, "sw_swap")

\* C19: a context that runs lrng_sdrng_get in atomic or interrupt context
\* acquires neither the mutex of the primary DRNG nor the mutex of a
\* secondary DRNG instance, its first-call initialization included; nor does
\* the interrupt handler add_interrupt_randomness
C19_NoMutexInAtomicContext ==
    [][/\ \A t \in Contexts :
            loc[t].atomic_ctx => ~TakesPdrngMutex(t) /\ ~TakesSdrngMutex(t)
       /\ irq' # irq
            => /\ pdrng_lock' = pdrng_lock
               /\ \A i \in DOMAIN sdrng : sdrng'[i].lock = sdrng[i].lock]_vars

\* context t is in lrng_pdrng_inject with an output buffer, after the seed
\* step and before the generate step
SeedThenDraw(t) ==
    /\ pc[t] \in {"inj_ready", "inj_wake", "inj_gen"}
    /\ loc[t].has_out /\ loc[t].outbuflen > 0

\* context t is at a statement that needs lrng_pdrng.lock
WantsPdrngMutex(t) ==
    \/ pc[t] \in {"init_pdrng", "inj_seed", "sw_pdrng"}
    \/ pc[t] = "sl_gen" /\ pdrng.pdrng_entropy_bits \div 8 # 0

\* C20: in lrng_pdrng_inject with an output buffer the mutex of the primary
\* DRNG is held from the seed step until the generate step, and in between
\* the state of the primary DRNG (DRNG handle, entropy budget, seeding flags)
\* changes only by the generate step of the same context
C20_SeedThenDrawAtomic ==
    [][\A t \in Contexts :
         /\ Leaves(t, "inj_seed") /\ pc'[t] # "inj_post" => pdrng_lock' = t
         /\ SeedThenDraw(t)
              => /\ pdrng_lock = t
                 /\ pdrng' # pdrng \/ pdrng_lock' # t => Leaves(t, "inj_gen")]_vars

\* a context is between seed and generate while another context waits for
\* the mutex of the primary DRNG
C20_Witness ==
    \E t, u \in Contexts :
        /\ t # u
        /\ SeedThenDraw(t) /\ pc[t] = "inj_gen"
        /\ pdrng.pdrng_entropy_bits > 0
        /\ WantsPdrngMutex(u)

(******************* backend failures on the primary DRNG *****************)
\* lrng_drng_seed_helper fails in the lrng_pdrng_inject of context t
PdrngSeedFailed(t) == Leaves(t, "inj_seed") /\ nfaults' # nfaults

\* lrng_drng_generate_helper_full fails in a lrng_pdrng_generate of context t
PdrngGenerateFailed(t) ==
    /\ Leaves(t, "inj_gen") \/ Leaves(t, "sl_gen")
    /\ nfaults' # nfaults

\* the pull from the old DRNG or the seeding of the new DRNG fails in the
\* lrng_drngs_switch of context t
PdrngSwitchFailed(t) == Leaves(t, "sw_pdrng") /\ nfaults' # nfaults

\* C21: a backend failure during lrng_drngs_switch resets the primary DRNG
\* (entropy budget 0, neither seeding flag set); a failed seed in
\* lrng_pdrng_inject and a failed generate in lrng_pdrng_generate return the
\* error and leave the entropy budget and the seeding flags as they were
C21_ResetOnlyInSwitch ==
    [][\A t \in Contexts :
         /\ PdrngSwitchFailed(t)
              => /\ pdrng'.pdrng_entropy_bits = 0
                 /\ Level(pdrng') = 0
         /\ PdrngSeedFailed(t) \/ PdrngGenerateFailed(t)
              => /\ pdrng' = pdrng
                 /\ loc'[t].ret = -EFAULT]_vars

\* lrng_pdrng_inject has returned the error of a failed backend call and the
\* primary DRNG is still fully seeded with a budget
C21_Witness ==
    \E t \in Contexts :
        /\ pc[t] = "inj_post" /\ loc[t].ret = -EFAULT
        /\ pdrng.pdrng_fully_seeded
        /\ pdrng.pdrng_entropy_bits > 0

\* C21 as stated: every backend failure on the primary DRNG, in inject,
\* generate or switch, leaves the entropy budget at zero and the primary DRNG
\* not fully seeded
C21_ResetOnEveryFailure ==
    [][\A t \in Contexts :
         PdrngSeedFailed(t) \/ PdrngGenerateFailed(t) \/ PdrngSwitchFailed(t)
            => /\ pdrng'.pdrng_entropy_bits = 0
               /\ ~pdrng'.pdrng_fully_seeded]_vars

(******************** failed seeding of a secondary DRNG ******************)
\* the seeding of a secondary DRNG instance fails in this step of context t:
\* seed_func returned an error other than -EINPROGRESS, or
\* lrng_drng_seed_helper failed in lrng_sdrng_inject
SdrngSeedFailed(t) ==
    /\ Leaves(t, "ss_ret")
    /\ \/ loc[t].ret < 0 /\ loc[t].ret # -EINPROGRESS
       \/ loc[t].ret >= 0 /\ nfaults' # nfaults

\* C22: a failed seeding of a secondary DRNG instance sets its request
\* counter to 1 and advances neither last_seeded nor fully_seeded
C22_FailedSeedAdvancesNothing ==
    [][\A t \in Contexts :
         SdrngSeedFailed(t)
            => LET i == loc[t].sinst
               IN /\ sdrng'[i].requests = 1
                  /\ sdrng'[i].last_seeded = sdrng[i].last_seeded
                  /\ sdrng'[i].fully_seeded = sdrng[i].fully_seeded]_vars

(************** the interrupt handler and the scheduled reseed ************)
\* number of interrupts: two more than the first threshold of
\* LRNG_INIT_ENTROPY_BITS events
TriggerEvents == LRNG_INIT_ENTROPY_BITS + 2

\* time stamps of the interrupt number n + 1: one whose first three
\* differences from its predecessors are not zero and, around the threshold,
\* a repetition of the last time stamp (a stuck event)
TriggerStamps(n) ==
    {(n + 1) * (n + 1) * (n + 1)} \cup
    (IF n + 2 >= LRNG_INIT_ENTROPY_BITS THEN {irq_info.last_time} ELSE {})

\* an interrupt after the timer detection of lrng_drngs_init_cc20
TriggerEvent(c) ==
    /\ irq[c].pc = "idle"
    /\ irq_info.irq_highres_timer
    /\ nirq < TriggerEvents
    /\ nirq' = nirq + 1
    /\ \E now \in TriggerStamps(nirq) : IrqEntry(c, now)
    /\ UNCHANGED <<irqOnly, lrng_pool, irq_info, work_pending>>

\* the first operation: lrng_pdrng_get of LRNG_DRNG_SECURITY_STRENGTH_BYTES
\* bytes
StartTriggerGet(t) ==
    /\ nops = 0
    /\ PdrngGetCall(t, LRNG_DRNG_SECURITY_STRENGTH_BYTES)
    /\ UNCHANGED <<pdrngVars, sdrngVars, switchVars, readyVars, envVars,
                   irq_info, lrng_pdrng_avail, work_pending, nfaults>>

\* the state before the first call of lrng_drngs_init_cc20, on a machine
\* with a high-resolution time stamp and a CPU random number generator
InitTrigger ==
    /\ InitCommon
    /\ highres_timer = TRUE /\ fips_enabled = FALSE
    /\ archrandom = LRNG_MIN_SEED_ENTROPY_BITS /\ jitterrng = 0
    /\ nfaults = MaxFaults

\* Interrupts arrive while a context reads /dev/random (the first read
\* initializes the DRNGs) and the worker runs the scheduled reseeds
NextTrigger ==
    \/ TriggerEvent("cpu0")
    \/ IrqBody("cpu0")
    \/ WorkerSteps
    \/ \E t \in {"t1"} :
         \/ StartTriggerGet(t) \/ PdrngGetRet(t) \/ InitSteps(t)
         \/ SeedSteps(t) \/ InjectSteps(t)

SpecTrigger == InitTrigger /\ [][NextTrigger]_vars

\* the step is one of the interrupt handler on CPU c
HandlerStep(c) == irq'[c] # irq[c]

\* the handler on CPU c takes reseed_in_progress or schedules lrng_seed_work
\* in this step
HandlerSchedules(c) ==
    /\ HandlerStep(c)
    /\ \/ irq_info'.reseed_in_progress # irq_info.reseed_in_progress
       \/ work_pending' # work_pending

NextNuma ==
    \/ \E t \in {"t1"} :
         \/ StartSdrngGet(t)
         \/ InitSteps(t) \/ SeedSteps(t) \/ InjectSteps(t)
         \/ SdrngSteps(t)
    \/ \E t \in {"t2"} : NumaSteps(t) \/ InitSteps(t) \/ SwitchSteps(t)

SpecNuma == InitSwitch /\ [][NextNuma]_vars

\* context t executes a statement of _lrng_drngs_numa_alloc after its call
\* of lrng_drngs_init_cc20
NumaStep(t) ==
    /\ pc[t] \in {"na_check", "na_node", "na_publish", "na_err"}
    /\ <<pc'[t], loc'[t]>> # <<pc[t], loc[t]>>

\* the table tbl is complete: lrng_sdrng_init for the first node and, for
\* every other node, an instance of its own that is as lrng_sdrng_reset
\* leaves it, with a DRNG that is allocated
CompleteTable(tbl, s, fr) ==
    /\ DOMAIN tbl = Nodes
    /\ tbl[0] = "init"
    /\ \A n \in Nodes \ {0} :
         /\ tbl[n] \in DOMAIN s \ {"init", "atomic"}
         /\ \A m \in Nodes \ {n} : tbl[m] # tbl[n]
         /\ ~s[tbl[n]].fully_seeded /\ s[tbl[n]].force_reseed
         /\ s[tbl[n]].requests = LRNG_DRNG_RESEED_THRESH
         /\ s[tbl[n]].sdrng \notin fr
         /\ \A j \in DOMAIN s \ {tbl[n]} : s[j].sdrng # s[tbl[n]].sdrng

\* C24: the table lrng_sdrng changes only from NULL to a complete table, in
\* the cmpxchg of _lrng_drngs_numa_alloc; a run that leaves through "err"
\* leaves the table NULL and releases the DRNG and the memory of every
\* instance it allocated; no statement of _lrng_drngs_numa_alloc changes
\* lrng_sdrng_init; without a table lrng_sdrng_get in process context
\* generates from lrng_sdrng_init
C24_TablePublishedOnce ==
    [][/\ lrng_sdrng' # lrng_sdrng
            => /\ lrng_sdrng = NoTable
               /\ \E t \in Users : Leaves(t, "na_publish")
               /\ CompleteTable(lrng_sdrng', sdrng', freed')
       /\ \A t \in Users :
            /\ NumaStep(t) => sdrng'["init"] = sdrng["init"]
            /\ Leaves(t, "na_err")
                 => /\ lrng_sdrng' = NoTable
                    /\ DOMAIN sdrng' = {"init", "atomic"}
                    /\ \A i \in DOMAIN sdrng \ {"init", "atomic"} :
                         sdrng[i].sdrng \in freed'
            /\ Leaves(t, "sg_select") /\ lrng_sdrng = NoTable
               /\ ~loc[t].atomic_ctx
                 => loc'[t].gf[1].sinst = "init"]_vars

\* the table is published by a run of _lrng_drngs_numa_alloc that follows a
\* run in which the allocation for the last node failed
C24_Witness ==
    /\ lrng_sdrng # NoTable
    /\ freed # {}
    /\ pdrng.pdrng = PRIMARY_CHACHA20
    /\ nfaults = 1
    /\ \E t \in Users : pc[t] = "idle" /\ loc[t].op = "numa_alloc"

(********************** injection from outside the pool *******************)
\* External injection while interrupts arrive: one context writes to the
\* device or feeds the hardware generator, another reads /dev/random, and the
\* interrupt handler credits events to the pool in bursts.
InitInject ==
    /\ InitCommon
    /\ archrandom = ARCHRANDOM_BITS
    /\ jitterrng = JITTERRNG_BITS
    /\ highres_timer = TRUE
    /\ fips_enabled = FALSE
    /\ nfaults = 0

NextInject ==
    \/ StartWrite("t1") \/ StartHwgenerator("t1") \/ StartPdrngGet("t2")
    \/ \E t \in Users :
         \/ WriteLoop(t) \/ WriteForceReseed(t) \/ HwgeneratorRet(t)
         \/ PdrngGetRet(t)
         \/ InitSteps(t) \/ SeedSteps(t) \/ InjectSteps(t)
    \/ IrqBatch

SpecInject == InitInject /\ [][NextInject]_vars

\* context t executes a statement of a lrng_pdrng_inject that was called by
\* add_hwgenerator_randomness or by lrng_drng_write_common
ExternalInject(t) ==
    /\ loc[t].op \in {"write", "hwgen"}
    /\ pc[t] \in {"inj_seed", "inj_ready", "inj_wake", "inj_gen", "inj_post"}
    /\ pc'[t] # pc[t]

\* C25: a lrng_pdrng_inject called by add_hwgenerator_randomness or by
\* lrng_drng_write_common leaves the pool words, the pool pointer, the
\* rotation counter and num_events as they are, and the secondary DRNGs, the
\* hash and the reseed flag as well; besides the primary DRNG it changes only
\* what lrng_pdrng_init_ops changes: num_events_thresh and the ready list
C25_ExternalInjectBypassesPool ==
    [][\A t \in Users :
         ExternalInject(t)
            => /\ lrng_pool' = lrng_pool
               /\ irq_info' = [irq_info EXCEPT !.num_events_thresh =
                                                  irq_info'.num_events_thresh]
               /\ UNCHANGED <<sdrngVars, lrng_hash, work_pending,
                              lrng_pdrng_avail>>]_vars

\* an injection from outside has seeded the primary DRNG while events are
\* counted in the pool
C25_Witness ==
    \E t \in Users :
        /\ loc[t].op \in {"write", "hwgen"}
        /\ pc[t] = "inj_post" /\ loc[t].ret = 0
        /\ pdrng.pdrng_entropy_bits > 0
        /\ irq_info.num_events > 0

\* C25 as stated: such a lrng_pdrng_inject changes only the primary DRNG
C25_OnlyPrimaryChanges ==
    [][\A t \in Users :
         ExternalInject(t)
            => UNCHANGED <<lrng_pool, irq_info, sdrngVars, lrng_hash,
                           readyVars, work_pending, lrng_pdrng_avail>>]_vars

(***************************** forced reseeding ***************************)
\* the table _lrng_drngs_numa_alloc publishes
NumaTable == [n \in Nodes |-> IF n = 0 THEN "init" ELSE NodeInstance(n)]

\* the instances as _lrng_drngs_numa_alloc leaves them: the DRNG of the
\* instance of node n is the n-th allocation
NumaInstances ==
    [i \in {"init", "atomic"} \cup {NodeInstance(n) : n \in Nodes \ {0}} |->
        lrng_sdrng_reset(
           [SdrngStatic EXCEPT
               !.sdrng = IF i \in {"init", "atomic"} THEN SECONDARY_CHACHA20
                         ELSE IF i = NodeInstance(1) THEN 2 ELSE 3])]

\* the state after lrng_drngs_init_cc20 and, where numa is TRUE, after
\* _lrng_drngs_numa_alloc
InitForce ==
    /\ jiffies = 0
    /\ pdrng = [pdrng |-> PRIMARY_CHACHA20, crypto_cb |-> CC20,
                pdrng_fully_seeded |-> FALSE, pdrng_min_seeded |-> FALSE,
                pdrng_entropy_bits |-> 0]
    /\ pdrng_lock = NULL
    /\ \E numa \in BOOLEAN :
         IF numa
         THEN /\ lrng_sdrng = NumaTable
              /\ sdrng = NumaInstances
              /\ next_handle = 4
              /\ alloc_cb = [h \in {PRIMARY_CHACHA20, SECONDARY_CHACHA20,
                                    2, 3} |-> CC20]
         ELSE /\ lrng_sdrng = NoTable
              /\ sdrng = [i \in {"init", "atomic"} |->
                             lrng_sdrng_reset(SdrngStatic)]
              /\ next_handle = 2
              /\ alloc_cb = [h \in {PRIMARY_CHACHA20, SECONDARY_CHACHA20}
                               |-> CC20]
    /\ all_online_numa_node_seeded = FALSE
    /\ lrng_hash = NULL_HASH
    /\ irq = [c \in Cpus |-> IrqIdle]
    /\ lrng_sdrng_reseed_max_time = SDRNG_RESEED_MAX_TIME_INIT
    /\ lrng_crypto_cb_update = NULL
    /\ lrng_ready_list = {}
    /\ fired = [c \in Users |-> 0]
    /\ work_pending = FALSE
    /\ freed = {}
    /\ pc = [t \in Contexts |-> "idle"]
    /\ loc = [t \in Contexts |-> LocInit]
    /\ nops = 0 /\ nticks = 0 /\ nirq = 0
    /\ lrng_pool = PoolInit
    /\ highres_timer = TRUE /\ fips_enabled = FALSE
    /\ archrandom = ARCHRANDOM_BITS /\ jitterrng = JITTERRNG_BITS
    /\ nfaults = MaxFaults
    /\ irq_info = TimerDetect(IrqInfoInit)
    /\ lrng_pdrng_avail = 1

\* lrng_sdrng_get for one chunk, in process context or in atomic context
StartForceGet(t) ==
    /\ StartSdrngGet(t)
    /\ loc'[t].req = LRNG_DRNG_SECURITY_STRENGTH_BYTES

\* a write of 16 bytes, without entropy or with 128 bits of entropy
StartForceWrite(t) ==
    /\ StartWrite(t)
    /\ loc'[t].count = 16

\* Forced reseeding: one context requests random data and writes to the
\* device file while interrupts arrive whose reseed work the worker runs.
NextForce ==
    \/ \E t \in {"t1"} :
         \/ StartForceGet(t) \/ StartForceWrite(t)
         \/ WriteLoop(t) \/ WriteForceReseed(t)
         \/ InitCheck(t) \/ SeedSteps(t) \/ InjectSteps(t)
         \/ SdrngSteps(t)
    \/ WorkSteps
    \/ SdrngSteps(Worker) \/ InitCheck(Worker)
    \/ SeedSteps(Worker) \/ InjectSteps(Worker)
    \/ IrqBatch

SpecForce == InitForce /\ [][NextForce]_vars

\* the secondary instances in use: lrng_sdrng_init while there is no table,
\* else the instances of the table
InstancesInUse ==
    IF lrng_sdrng = NoTable THEN {"init"} ELSE {lrng_sdrng[n] : n \in Nodes}

\* context t ends a lrng_drng_write_common that was called without entropy
ForceReseedRequest(t) ==
    /\ Leaves(t, "wr_force")
    /\ loc[t].orig_ent = 0

\* context t passes the reseed test of lrng_sdrng_get for a chunk of an
\* instance whose force_reseed is set
ForcedChunk(t) ==
    /\ Leaves(t, "sg_loop")
    /\ Head(loc[t].gf).outbuflen > 0
    /\ sdrng[Head(loc[t].gf).sinst].force_reseed

\* force_reseed of instance i goes from set to clear
ForceReseedCleared(i) ==
    /\ i \in DOMAIN sdrng'
    /\ sdrng[i].force_reseed
    /\ ~sdrng'[i].force_reseed

AvailEntropy(n, ieb) ==
    IF ieb = 0 THEN 0
    ELSE Min(lrng_data_to_entropy(n, ieb), LRNG_POOL_SIZE_BITS)

\* context t completes a lrng_get_pool that was called with drain = false
NonDrainingReturns(t) == GetPoolReturns(t) /\ ~loc[t].drain

\* C27: a lrng_get_pool with drain = false that found less than the requested
\* 256 bits plus LRNG_EMERG_ENTROPY in the pool returns 0 bits and uses no
\* event (all events it took and all that arrived meanwhile go back, up to
\* the capacity of the pool); and when it returned more than 0 bits, the
\* entropy estimate of the pool is at least LRNG_EMERG_ENTROPY afterwards
C27_EmergencyReserve ==
    [][\A t \in Contexts :
          NonDrainingReturns(t)
          => LET ieb == irq_info.irq_entropy_bits
                 taken == loc[t].irq_num_events
                 arrived == irq_info.num_events
                 bits == loc'[t].total
             IN /\ AvailEntropy(taken, ieb)
                      < LRNG_DRNG_SECURITY_STRENGTH_BITS + LRNG_EMERG_ENTROPY
                   => /\ bits = 0
                      /\ irq_info'.num_events =
                            Min(taken + arrived,
                                lrng_entropy_to_data(LRNG_POOL_SIZE_BITS, ieb))
                /\ bits > 0
                   => AvailEntropy(irq_info'.num_events, ieb)
                         >= LRNG_EMERG_ENTROPY]_vars

\* a lrng_get_pool with drain = false has returned entropy and has left the
\* emergency level in the pool
C27_Witness ==
    \E t \in Contexts :
       /\ pc[t] = "sl_noise" /\ ~loc[t].drain
       /\ loc[t].total = LRNG_DRNG_SECURITY_STRENGTH_BITS
       /\ AvailEntropy(irq_info.num_events, irq_info.irq_entropy_bits)
             >= LRNG_EMERG_ENTROPY

(*************************** accounting of events *************************)
\* the capacity of the pool in events
CapacityEvents(ieb) == lrng_entropy_to_data(LRNG_POOL_SIZE_BITS, ieb)

\* context t completes a lrng_get_pool during which no event arrived
QuietGetPoolReturns(t) ==
    /\ GetPoolReturns(t)
    /\ irq_info.num_events = 0
    /\ irq_info.irq_entropy_bits # 0

\* C28: when lrng_get_pool returns and no event arrived during the call,
\* num_events is the smaller of old - used and capacity - used, where old is
\* the counter the call found, used the returned bits converted to events
\* and capacity the pool size converted to events; used is at most old, and
\* num_events is at most capacity
C28_EventAccounting ==
    [][\A t \in Contexts :
          QuietGetPoolReturns(t)
          => LET ieb == irq_info.irq_entropy_bits
                 old == loc[t].irq_num_events
                 used == (loc'[t].total * ieb)
                            \div LRNG_DRNG_SECURITY_STRENGTH_BITS
                 capacity == (LRNG_POOL_SIZE_BITS * ieb)
                                \div LRNG_DRNG_SECURITY_STRENGTH_BITS
             IN /\ irq_info'.num_events = Min(old - used, capacity - used)
                /\ used <= old
                /\ irq_info'.num_events <= capacity]_vars

\* a lrng_get_pool that found more events than the pool holds has returned
\* entropy: the counter is at capacity less the events used
C28_Witness ==
    \E t \in Contexts :
       LET ieb == irq_info.irq_entropy_bits
       IN /\ pc[t] = "sl_noise" /\ loc[t].total > 0
          /\ loc[t].irq_num_events > CapacityEvents(ieb)
          /\ irq_info.num_events =
                CapacityEvents(ieb) - lrng_entropy_to_data(loc[t].total, ieb)

(****************************** the stride ********************************)
\* the pool slot the pointer of pool p selects, and its rotation
PoolSlot(p) == p.pool_ptr % LRNG_POOL_SIZE
PoolRotation(p) == p.input_rotate % LRNG_POOL_WORD_BITS

\* pool_ptr after a call of lrng_pool_lfsr_u32 that found it at n
NextPoolPtr(n) ==
    lrng_pool_lfsr_u32([PoolInit EXCEPT !.pool_ptr = n], {}).pool_ptr

\* k calls of lrng_pool_lfsr_u32, k > 0, that found pool_ptr at n: pool_ptr
\* afterwards and the slots written (the calls are split in halves)
RECURSIVE PoolWalk(_, _)
PoolWalk(n, k) ==
    IF k = 1
    THEN [ptr |-> NextPoolPtr(n),
          slots |-> {NextPoolPtr(n) % LRNG_POOL_SIZE}]
    ELSE CHOOSE r \in
            UNION {{[ptr |-> b.ptr, slots |-> a.slots \cup b.slots] :
                      b \in {PoolWalk(a.ptr, k - k \div 2)}} :
                         a \in {PoolWalk(n, k \div 2)}} : TRUE

\* the slots that the next k calls of lrng_pool_lfsr_u32 write when pool_ptr
\* is n
SlotsWritten(n, k) == PoolWalk(n, k).slots

\* C29: a call of lrng_pool_lfsr_u32 moves the pointer by 67 modulo 128 and
\* the rotation by 14 modulo 32 when the new pointer is 0, by 7 otherwise;
\* it changes no pool word other than the one at the new pointer; and from
\* every position of the pointer, 128 calls in a row write 128 different
\* slots
C29_Stride ==
    /\ [][\A c \in Cpus :
            irq'[c] # irq[c]
            => LET ptr == PoolSlot(lrng_pool')
               IN /\ ptr = (PoolSlot(lrng_pool) + 67) % LRNG_POOL_SIZE
                  /\ PoolRotation(lrng_pool') =
                        (PoolRotation(lrng_pool)
                            + (IF ptr = 0 THEN 14 ELSE 7))
                           % LRNG_POOL_WORD_BITS
                  /\ \A i \in 0..(LRNG_POOL_SIZE - 1) :
                        i # ptr
                        => lrng_pool'.pool[i] = lrng_pool.pool[i]]_vars
    /\ [](nirq = 0
            => Cardinality(SlotsWritten(lrng_pool.pool_ptr, LRNG_POOL_SIZE))
                  = LRNG_POOL_SIZE)

\* two words were mixed in: the second one went to pool[0], the pointer has
\* wrapped and the rotation has advanced by 14
C29_Witness ==
    /\ nirq = 2
    /\ PoolSlot(lrng_pool) = 0
    /\ lrng_pool.pool[0] # {}
    /\ lrng_pool.input_rotate = irq["cpu0"].pool0.input_rotate + 14

(************************ full seeding of an instance *********************)
\* context t ends the lrng_sdrng_seed of an instance with the ret bytes its
\* seed function returned
SeedPullReturns(t) == Leaves(t, "ss_ret") /\ loc[t].ret >= 0

HoldsMutex(t, i) == sdrng[i].lock = t

\* context t holds the spin lock of instance i
HoldsSpinLock(t, i) == sdrng[i].spin_lock = t

\* the instance lrng_sdrng_get of context t currently works on
GetInstance(t) == Head(loc[t].gf).sinst

\* C31: no context holds the mutex and the spin lock of one secondary DRNG
\* instance at the same time (lrng_sdrng_switch takes both within its swap of
\* an instance that uses the DRNG of lrng_sdrng_atomic), and a context that is
\* inside lrng_drng_generate_helper for an instance holds exactly one of the
\* two locks of that instance
C31_OneLockPerOperation ==
    /\ \A t \in Contexts : \A i \in DOMAIN sdrng :
          ~(HoldsMutex(t, i) /\ HoldsSpinLock(t, i))
    /\ \A t \in Contexts :
          InGenerateHelper(t)
          => HoldsMutex(t, GetInstance(t)) # HoldsSpinLock(t, GetInstance(t))

\* context t makes, in this step, a backend call (lrng_drng_generate_helper or
\* lrng_drng_seed_helper) on the DRNG handle h of a secondary DRNG instance:
\* the pull of lrng_sdrng_switch, the lrng_sdrng_inject of lrng_sdrng_seed for
\* the instance and for lrng_sdrng_atomic
BackendCall(t, h) ==
    \/ /\ Leaves(t, "sw_pull")
       /\ h = sdrng[SwitchTargets[loc[t].node + 1]].sdrng
    \/ /\ Leaves(t, "ss_ret") /\ loc[t].ret >= 0
       /\ h = sdrng[loc[t].sinst].sdrng
    \/ /\ Leaves(t, "ss_atomic") /\ loc[t].ret >= 0
       /\ h = sdrng["atomic"].sdrng

\* C33: backend calls on one DRNG handle exclude each other: no two contexts
\* are inside lrng_drng_generate_helper with the same handle, and no context
\* makes a backend seed or generate call on a handle while another context is
\* inside lrng_drng_generate_helper with that handle
C33_BackendExclusive ==
    /\ [](\A t, u \in Contexts :
            t # u /\ InGenerateHelper(t) /\ InGenerateHelper(u)
            => loc[t].used_sdrng # loc[u].used_sdrng)
    /\ [][\A t, u \in Contexts :
            t # u /\ InGenerateHelper(u)
            => ~BackendCall(t, loc[u].used_sdrng)]_vars

\* context t is between its lrng_sdrng_lock and its lrng_sdrng_unlock of
\* instance i (in lrng_sdrng_get, around lrng_drng_generate_helper)
InsideLock(t, i) == InGenerateHelper(t) /\ GetInstance(t) = i

\* C34: a lock of a secondary DRNG instance is released only by the context
\* that holds it, and a context holds a lock of an instance only between its
\* lrng_sdrng_lock and its lrng_sdrng_unlock of that instance
C34_LockPairing ==
    /\ [](\A t \in Contexts : \A i \in DOMAIN sdrng :
            HoldsMutex(t, i) \/ HoldsSpinLock(t, i) => InsideLock(t, i))
    /\ [][\A t \in Contexts : \A i \in DOMAIN sdrng :
            \/ HoldsMutex(t, i) /\ sdrng'[i].lock # t
            \/ HoldsSpinLock(t, i) /\ sdrng'[i].spin_lock # t
            => pc'[t] # pc[t]]_vars

(************************* boot-time initialisation ***********************)
\* context t executes the initialisation body of lrng_drngs_init_cc20: it is
\* past the second test of lrng_pdrng_avail and has not yet set it
InInitBody(t) == pc[t] = "init_pdrng"

\* context t resets the primary DRNG in lrng_drngs_init_cc20 in this step
InitResetsPdrng(t) == Leaves(t, "init_pdrng")

\* C35: the initialisation body of lrng_drngs_init_cc20 is executed by at most
\* one of its concurrent callers, and nothing is reset by it once
\* lrng_pdrng_avail is 1
C35_InitOnce ==
    /\ [](\A t, u \in Contexts : InInitBody(t) /\ InInitBody(u) => t = u)
    /\ [][\A t \in Contexts :
            InitResetsPdrng(t) => lrng_pdrng_avail = 0]_vars

(******************* all_online_numa_node_seeded **************************)
\* number of interrupt bursts: one for the seeding of each of the three
\* per-node instances, and one for the run of lrng_sdrng_seed_work that finds
\* them all fully seeded
MaxOnlineIrq == 4

\* the state after lrng_drngs_init_cc20 and _lrng_drngs_numa_alloc, with the
\* default backend; one backend call may fail
InitOnline ==
    /\ jiffies = 0
    /\ pdrng = [pdrng |-> PRIMARY_CHACHA20, crypto_cb |-> CC20,
                pdrng_fully_seeded |-> FALSE, pdrng_min_seeded |-> FALSE,
                pdrng_entropy_bits |-> 0]
    /\ pdrng_lock = NULL
    /\ lrng_sdrng = NumaTable
    /\ sdrng = NumaInstances
    /\ next_handle = 4
    /\ alloc_cb = [h \in {PRIMARY_CHACHA20, SECONDARY_CHACHA20, 2, 3} |-> CC20]
    /\ all_online_numa_node_seeded = FALSE
    /\ lrng_hash = NULL_HASH
    /\ irq = [c \in Cpus |-> IrqIdle]
    /\ lrng_sdrng_reseed_max_time = SDRNG_RESEED_MAX_TIME_INIT
    /\ lrng_crypto_cb_update = NULL
    /\ lrng_ready_list = {}
    /\ fired = [c \in Users |-> 0]
    /\ work_pending = FALSE
    /\ freed = {}
    /\ pc = [t \in Contexts |-> "idle"]
    /\ loc = [t \in Contexts |-> LocInit]
    /\ nops = 0 /\ nticks = 0 /\ nirq = 0
    /\ lrng_pool = PoolInit
    /\ highres_timer = TRUE /\ fips_enabled = FALSE
    /\ archrandom = ARCHRANDOM_BITS /\ jitterrng = JITTERRNG_BITS
    /\ nfaults = 0
    /\ irq_info = TimerDetect(IrqInfoInit)
    /\ lrng_pdrng_avail = 1

\* a burst of interrupts that fills the pool
OnlineIrq ==
    /\ nirq < MaxOnlineIrq
    /\ nirq' = nirq + 1
    /\ IrqBurst(4200)
    /\ UNCHANGED <<pdrngVars, sdrngVars, switchVars, readyVars, archrandom,
                   jitterrng, jiffies, highres_timer, nticks, fips_enabled,
                   lrng_pool, irq, lrng_pdrng_avail, pc, loc, nops, nfaults>>

\* lrng_set_drng_cb is called after lrng_sdrng_seed_work has found all
\* per-node instances fully seeded
StartOnlineSwitch(t) ==
    /\ all_online_numa_node_seeded
    /\ lrng_set_drng_cb(t)

\* Seeding of the per-node instances: interrupts arrive, the worker runs the
\* scheduled reseeds (with the reseed of lrng_sdrng_atomic through
\* lrng_sdrng_get), and then a context switches the backend
NextOnline ==
    \/ OnlineIrq
    \/ WorkerSteps
    \/ InitCheck(Worker) \/ SdrngGetSelect(Worker) \/ SdrngGetLoop(Worker)
    \/ SdrngGetLockKind(Worker) \/ SdrngGetLock(Worker)
    \/ SdrngGetGenerate(Worker) \/ SdrngSeedAtomic(Worker)
    \/ \E t \in {"t2"} :
         \/ StartOnlineSwitch(t) \/ SwitchAlloc(t) \/ SwitchPdrng(t)
         \/ lrng_sdrng_switch(t) \/ SdrngSwitchPull(t) \/ SdrngSwitchSwap(t)
         \/ SwitchAvail(t)

SpecOnline == InitOnline /\ [][NextOnline]_vars

\* the per-node instances of the online nodes
OnlineInstances == {lrng_sdrng[n] : n \in Nodes}

\* C36: whenever all_online_numa_node_seeded is set, the instance of every
\* online node is fully seeded
C36_AllOnlineSeeded ==
    all_online_numa_node_seeded /\ lrng_sdrng # NoTable
    => \A i \in OnlineInstances : sdrng[i].fully_seeded

(******************* nesting of lrng_sdrng_get ****************************)
\* depth at which the nesting of lrng_sdrng_get calls is cut off
MaxDepth == 4

\* number of lrng_sdrng_get calls context t is in (the call of the user and
\* the calls lrng_sdrng_seed makes for the seed of lrng_sdrng_atomic)
NestingDepth(t) == Len(loc[t].gf)

\* the backend keeps failing: the call lrng_sdrng_inject is about to make may
\* fail although calls have failed before
BackendFailsAgain ==
    /\ nfaults = MaxFaults
    /\ \E t \in Contexts : pc[t] = "ss_ret" /\ loc[t].ret >= 0
    /\ nfaults' = 0
    /\ UNCHANGED <<pdrngVars, sdrngVars, switchVars, readyVars, archrandom,
                   jitterrng, jiffies, highres_timer, nticks, fips_enabled,
                   lrng_pool, irq, nirq, irq_info, lrng_pdrng_avail,
                   work_pending, pc, loc, nops>>

\* lrng_sdrng_seed after seed_func, cut off at MaxDepth nested calls
SdrngSeedRetNested(t) ==
    /\ NestingDepth(t) <= MaxDepth
    /\ SdrngSeedRet(t)

\* the first operation is lrng_set_drng_cb
StartFirstSwitch(t) ==
    /\ nops = 0
    /\ lrng_set_drng_cb(t)

\* Nested requests: the backend is switched, then a context requests random
\* data from the secondary DRNG while the seed operation of the backend fails
\* again and again
NextRecur ==
    \/ \E t \in {"t2"} :
         \/ StartFirstSwitch(t) \/ SwitchAlloc(t) \/ SwitchPdrng(t)
         \/ lrng_sdrng_switch(t) \/ SdrngSwitchPull(t) \/ SdrngSwitchSwap(t)
         \/ SwitchAvail(t)
    \/ \E t \in {"t1"} :
         \/ StartForceGet(t) \/ InitCheck(t)
         \/ SeedSteps(t)
         \/ InjectSeed(t) \/ InjectGenerate(t) \/ InjectReturn(t)
         \/ SdrngGetSelect(t) \/ SdrngGetLoop(t) \/ SdrngGetLockKind(t)
         \/ SdrngGetLock(t) \/ SdrngGetGenerate(t) \/ SdrngGetDone(t)
         \/ SdrngSeedStart(t) \/ SdrngSeedRetNested(t) \/ SdrngSeedAtomic(t)
    \/ BackendFailsAgain

SpecRecur == InitForce /\ [][NextRecur]_vars

\* lrng_sdrng_get of context t has generated one chunk in this step
ChunkGenerated(t) ==
    /\ Leaves(t, "sg_run") /\ pc'[t] = "sg_loop"
    /\ NestingDepth(t) = 1

\* C37: every chunk of lrng_sdrng_get either ends the call with an error or
\* consumes between 1 and LRNG_DRNG_MAX_REQSIZE of the requested bytes, and
\* the nesting of lrng_sdrng_get through lrng_sdrng_seed stays below the depth
\* at which it is cut off
C37_GetTerminates ==
    /\ [](\A t \in Contexts : NestingDepth(t) <= MaxDepth)
    /\ [][\A t \in Contexts :
            ChunkGenerated(t)
            => LET before == Head(loc[t].gf).outbuflen
                   after == Head(loc'[t].gf).outbuflen
               IN /\ before - after >= 1
                  /\ before - after <= LRNG_DRNG_MAX_REQSIZE]_vars

(******************* the request counter below zero ***********************)
\* number of lrng_sdrng_get calls while reseeds are in progress
MaxUnderflowOps == 2

\* lrng_sdrng_get for two chunks in process context
StartUnderflowGet(t) ==
    /\ nops < MaxUnderflowOps
    /\ StartSdrngGet(t)
    /\ loc'[t].req = LRNG_DRNG_MAX_REQSIZE + 32

\* Requests while reseeds are in progress: a context requests random data
\* from the secondary DRNG while interrupts arrive and the worker runs the
\* scheduled reseeds; one backend call may fail
NextUnderflow ==
    \/ \E t \in {"t1"} :
         \/ StartUnderflowGet(t) \/ InitCheck(t)
         \/ SeedSteps(t) \/ InjectSteps(t) \/ SdrngSteps(t)
    \/ WorkerSteps
    \/ InitCheck(Worker) \/ SdrngGetSelect(Worker) \/ SdrngGetLoop(Worker)
    \/ SdrngGetLockKind(Worker) \/ SdrngGetLock(Worker)
    \/ SdrngGetGenerate(Worker) \/ SdrngSeedAtomic(Worker)
    \/ IrqBatch

SpecUnderflow == InitOnline /\ [][NextUnderflow]_vars

\* lrng_sdrng_seed of context t returns in this step because seed_func
\* returned -EINPROGRESS
SeedRefused(t) == Leaves(t, "ss_ret") /\ loc[t].ret = -EINPROGRESS

\* no reseed of the primary DRNG is in progress
ReseedPathFree == irq_info.reseed_in_progress = 0

ReadContinues ==
    \E t \in {"t1"} :
       PdrngGetRet(t) \/ InitSteps(t) \/ SeedSteps(t) \/ InjectSteps(t)

\* a read of /dev/random of 64 bytes, at most twice
StartFlagRead(t) ==
    /\ nops < MaxUnderflowOps
    /\ StartPdrngGet(t)
    /\ loc'[t].outbuflen = 64

\* Reseeding: a context reads /dev/random while interrupts arrive and the
\* worker runs the scheduled reseeds
NextFlag ==
    \/ \E t \in {"t1"} : StartFlagRead(t)
    \/ ReadContinues
    \/ WorkerSteps
    \/ IrqBatch

\* Reseeding with failing backend calls, where every started operation is
\* continued and the scheduled work item is run (the kernel schedules every
\* runnable thread and the worker of the system workqueue); reads and
\* interrupts arrive or do not
SpecReseedFair ==
    /\ InitSwitch
    /\ [][NextFlag]_vars
    /\ WF_vars(WorkerSteps)
    /\ WF_vars(ReadContinues)

\* the steps that continue a started lrng_set_drng_cb
SwitchContinues ==
    \E t \in {"t2"} :
       \/ SwitchAlloc(t) \/ SwitchPdrng(t) \/ lrng_sdrng_switch(t)
       \/ SdrngSwitchPull(t) \/ SdrngSwitchSwap(t) \/ SwitchAvail(t)

\* Reads of /dev/random when the first operation may be lrng_set_drng_cb
NextFlagSwitch ==
    \/ \E t \in {"t2"} : StartFirstSwitch(t)
    \/ SwitchContinues
    \/ \E t \in {"t1"} : StartFlagRead(t)
    \/ ReadContinues

\* every started operation is continued
SpecFlagSwitch ==
    /\ InitSwitch
    /\ [][NextFlagSwitch]_vars
    /\ WF_vars(SwitchContinues)
    /\ WF_vars(ReadContinues)

\* reseed_in_progress is taken: by the compare-and-swap of lrng_pdrng_seed or
\* of lrng_pool_mixin
ReseedInProgress == irq_info.reseed_in_progress = 1

\* C38: whenever reseed_in_progress is set it is eventually cleared
C38_FlagReleased == ReseedInProgress ~> ~ReseedInProgress

\* a read of /dev/random has come back from lrng_pdrng_seed_locked with an
\* error of the backend, and reseed_in_progress, which its lrng_pdrng_seed had
\* taken, is clear
C38_Witness ==
    \E t \in Users :
       /\ pc[t] = "pg_ret"
       /\ loc[t].ret < 0 /\ loc[t].ret # -EINPROGRESS
       /\ ~ReseedInProgress

(********************* events counted during an extract *******************)
\* lrng_get_pool, lrng_hash_pool under lrng_pdrng.lock (statement by
\* statement: the second atomic_xchg and the atomic_add follow as steps of
\* their own)
GetPoolHashPool(t) ==
    /\ pc[t] = "gp_hash"
    /\ loc[t].avail >= 0 => pdrng_lock = NULL
    /\ \E okiter \in HashOutcomes(loc[t].avail) :
         LET l == loc[t]
             bits == GetPoolBits(l.avail, HashDigestSize(pdrng.crypto_cb),
                                 okiter)
         IN /\ Fault(bits = RoundDown8(Min(IF l.avail < 0 THEN 0 ELSE l.avail,
                                           LRNG_DRNG_SECURITY_STRENGTH_BITS)))
            /\ loc' = [loc EXCEPT ![t].total = bits]
    /\ Goto(t, "gp_xchg2")
    /\ UNCHANGED <<pdrngVars, sdrngVars, switchVars, readyVars, envVars,
                   irq_info, lrng_pdrng_avail, work_pending, nops>>

\* the second atomic_xchg where the value read replaces irq_num_events
GetPoolXchgAgain_overwrites(t) ==
    /\ pc[t] = "gp_xchg2"
    /\ irq_info' = [irq_info EXCEPT !.num_events = 0]
    /\ loc' = [loc EXCEPT ![t].irq_num_events = irq_info.num_events]
    /\ Goto(t, "gp_add")
    /\ UNCHANGED <<pdrngVars, sdrngVars, switchVars, readyVars, envVars,
                   lrng_pdrng_avail, work_pending, nops, nfaults>>

\* lrng_get_pool at "out":
\* irq_num_events += atomic_xchg_u32(&lrng_pool.irq_info.num_events, 0)
GetPoolXchgAgain(t) ==
    /\ pc[t] = "gp_xchg2"
    /\ irq_info' = [irq_info EXCEPT !.num_events = 0]
    /\ loc' = [loc EXCEPT
                  ![t].irq_num_events = @ + irq_info.num_events]
    /\ Goto(t, "gp_add")
    /\ UNCHANGED <<pdrngVars, sdrngVars, switchVars, readyVars, envVars,
                   lrng_pdrng_avail, work_pending, nops, nfaults>>

\* lrng_get_pool: atomic_add(irq_num_event_back, &lrng_pool.irq_info.num_events)
GetPoolAdd(t) ==
    /\ pc[t] = "gp_add"
    /\ irq_info' = [irq_info EXCEPT
                       !.num_events =
                           @ + GetPoolEventsBack(loc[t].irq_num_events,
                                                 loc[t].total,
                                                 irq_info.irq_entropy_bits)]
    /\ Goto(t, "sl_noise")
    /\ UNCHANGED <<pdrngVars, sdrngVars, switchVars, readyVars, envVars, loc,
                   lrng_pdrng_avail, work_pending, nops, nfaults>>

\* The entropy pool with the statements of lrng_get_pool as separate steps: a
\* context requests random data from the secondary DRNG while interrupts
\* arrive between any two of them
NextEvents ==
    \/ \E t \in {"t1"} :
         \/ StartSdrngGet(t)
         \/ InitSteps(t)
         \/ PdrngSeed(t) \/ SeedLockedGenerate(t) \/ GetPoolXchg(t)
         \/ GetPoolHashPool(t) \/ GetPoolXchgAgain(t) \/ GetPoolAdd(t)
         \/ SeedLockedNoise(t) \/ SeedLockedOut(t)
         \/ InjectSteps(t)
         \/ SdrngStepsDefault(t)
    \/ IrqBatch

SpecEvents == InitReseed /\ [][NextEvents]_vars

\* the events context t has taken out of num_events and not yet put back:
\* its local irq_num_events between the first atomic_xchg and the atomic_add
HeldEvents(t) ==
    IF pc[t] \in {"gp_hash", "gp_xchg2", "gp_add"}
    THEN loc[t].irq_num_events ELSE 0

\* the events that are counted and not consumed: the counter and the local
\* copies
PendingEvents ==
    irq_info.num_events
       + HeldEvents("t1") + HeldEvents("t2") + HeldEvents(Worker)

\* context t executes the atomic_add that ends its lrng_get_pool
GetPoolAdds(t) == Leaves(t, "gp_add")

\* the events the lrng_get_pool of t consumes in this step: the returned
\* entropy converted to events
ConsumedEvents(t) ==
    IF GetPoolAdds(t)
    THEN lrng_entropy_to_data(loc[t].total, irq_info.irq_entropy_bits)
    ELSE 0

\* the events the lrng_get_pool of t discards in this step: what it holds
\* beyond the capacity of the pool
CappedEvents(t) ==
    IF GetPoolAdds(t)
          /\ loc[t].irq_num_events > CapacityEvents(irq_info.irq_entropy_bits)
    THEN loc[t].irq_num_events - CapacityEvents(irq_info.irq_entropy_bits)
    ELSE 0

\* C39: events counted while lrng_get_pool runs are not lost - an interrupt
\* burst adds its events to num_events and leaves the events a running
\* lrng_get_pool holds alone; every other step keeps the number of pending
\* events (counter plus held), except the atomic_add that ends
\* lrng_get_pool, which takes away exactly the events consumed and the
\* events beyond the capacity of the pool.  So the counter after the call is
\* events before + events counted during the call - events consumed, less
\* the events cut off by the cap.
C39_EventsNotLost ==
    [][IF nirq' # nirq
       THEN /\ irq_info'.num_events - irq_info.num_events \in IrqBursts
            /\ \A t \in Contexts : HeldEvents(t)' = HeldEvents(t)
       ELSE PendingEvents' =
               PendingEvents
                  - (ConsumedEvents("t1") + ConsumedEvents("t2")
                       + ConsumedEvents(Worker))
                  - (CappedEvents("t1") + CappedEvents("t2")
                       + CappedEvents(Worker))]_vars

\* a lrng_get_pool that returned entropy is at its atomic_add, holds no more
\* events than the pool has room for, and events have been counted since its
\* second atomic_xchg
C39_Witness ==
    \E t \in Contexts :
       /\ pc[t] = "gp_add" /\ loc[t].total > 0
       /\ loc[t].irq_num_events
             <= CapacityEvents(irq_info.irq_entropy_bits)
       /\ loc[t].irq_num_events
             > lrng_entropy_to_data(loc[t].total, irq_info.irq_entropy_bits)
       /\ irq_info.num_events > 0

(******************* exactness of the event conversion ********************)
\* numbers of consecutive interrupt events while nothing extracts from the
\* pool: single events and as many as make the u32 product wrap, less one
FloodBursts == {1, EventsAtWrap - 1}

\* add_interrupt_randomness for a long run of events
IrqFlood ==
    /\ nirq < MaxIrq
    /\ nirq' = nirq + 1
    /\ \E n \in FloodBursts : IrqBurst(n)
    /\ UNCHANGED <<pdrngVars, sdrngVars, switchVars, readyVars, archrandom,
                   jitterrng, jiffies, highres_timer, nticks, fips_enabled,
                   lrng_pool, irq, lrng_pdrng_avail, pc, loc, nops, nfaults>>

\* Reads of /dev/random and long runs of interrupts, when the first operation
\* may be lrng_set_drng_cb
NextAvail ==
    \/ \E t \in {"t2"} : StartFirstSwitch(t)
    \/ SwitchContinues
    \/ \E t \in {"t1"} : StartFlagRead(t)
    \/ ReadContinues
    \/ IrqFlood

SpecAvail == InitSwitch /\ [][NextAvail]_vars

\* floor(num_events * 256 / irq_entropy_bits) in unbounded arithmetic (the
\* quotient taken in two parts)
ExactEntropy(n, ieb) ==
    (n \div ieb) * LRNG_DRNG_SECURITY_STRENGTH_BITS
       + ((n % ieb) * LRNG_DRNG_SECURITY_STRENGTH_BITS) \div ieb

\* context t evaluates lrng_data_to_entropy in this step: in lrng_get_pool,
\* in lrng_need_entropy of lrng_pdrng_seed_locked or in
\* lrng_have_entropy_full of lrng_pdrng_inject
ConversionEvaluated(t) ==
    Leaves(t, "gp_xchg") \/ Leaves(t, "sl_after") \/ Leaves(t, "inj_post")

\* C40: the conversion of events to entropy is exact - lrng_avail_entropy()
\* is min(4096, floor(num_events * 256 / irq_entropy_bits)) for every counter
\* value that is reached, it does not decrease when num_events grows, and
\* irq_entropy_bits is not zero when a conversion is evaluated.  The u32
\* product wraps once 2^24 events are counted, and lrng_set_drng_cb before
\* lrng_drngs_init_cc20 makes the DRNG available with irq_entropy_bits = 0.
C40_ConversionExact ==
    /\ [](irq_info.irq_entropy_bits # 0
          => AvailEntropy(irq_info.num_events, irq_info.irq_entropy_bits)
                = Min(LRNG_POOL_SIZE_BITS,
                      ExactEntropy(irq_info.num_events,
                                   irq_info.irq_entropy_bits)))
    /\ [][/\ (/\ irq_info'.irq_entropy_bits = irq_info.irq_entropy_bits
              /\ irq_info.irq_entropy_bits # 0
              /\ irq_info'.num_events >= irq_info.num_events)
             => AvailEntropy(irq_info'.num_events, irq_info.irq_entropy_bits)
                   >= AvailEntropy(irq_info.num_events,
                                   irq_info.irq_entropy_bits)
          /\ \A t \in Contexts :
                ConversionEvaluated(t) => irq_info.irq_entropy_bits # 0]_vars

\* the parts of C40 on their own
C40_NoWraparound ==
    [](irq_info.irq_entropy_bits # 0
       => AvailEntropy(irq_info.num_events, irq_info.irq_entropy_bits)
             = Min(LRNG_POOL_SIZE_BITS,
                   ExactEntropy(irq_info.num_events,
                                irq_info.irq_entropy_bits)))

C40_DivisorNonZero ==
    [][\A t \in Contexts :
          ConversionEvaluated(t) => irq_info.irq_entropy_bits # 0]_vars

====
